---- MODULE Spec2Model ----
(***************************************************************************)
(* Exhibit-Linker: the citation resolution and annotation engine of        *)
(* src/Exhibit_Linker.py (WordAutoLinkerCOM, ExcelAutoLinker and the       *)
(* handlers of ExhibitAnchorApp that configure them).                      *)
(*                                                                         *)
(* Text is modelled as TLA+ strings; offsets are Python's (0-based,        *)
(* half-open), so the character at offset i of s is SubSeq(s, i+1, i+1).   *)
(***************************************************************************)
EXTENDS Integers, Sequences, FiniteSets, TLC

(***************************************************************************)
(* Characters and Python's str helpers                                     *)
(***************************************************************************)
UpperSeq == "ABCDEFGHIJKLMNOPQRSTUVWXYZ"
LowerSeq == "abcdefghijklmnopqrstuvwxyz"
Upper == {SubSeq(UpperSeq, k, k) : k \in 1..Len(UpperSeq)}
Lower == {SubSeq(LowerSeq, k, k) : k \in 1..Len(LowerSeq)}
Digit == {"0", "1", "2", "3", "4", "5", "6", "7", "8", "9"}
Space == {" ", "\t", "\n", "\r", "\f"}
WordCh == Digit \cup Upper \cup Lower \cup {"_"}

At(s, i) == SubSeq(s, i + 1, i + 1)
Slice(s, a, b) == SubSeq(s, a + 1, b)

ToUpper(c) ==
    IF c \in Lower
    THEN LET k == CHOOSE j \in 1..Len(LowerSeq) : SubSeq(LowerSeq, j, j) = c
         IN SubSeq(UpperSeq, k, k)
    ELSE c
ToLower(c) ==
    IF c \in Upper
    THEN LET k == CHOOSE j \in 1..Len(UpperSeq) : SubSeq(UpperSeq, j, j) = c
         IN SubSeq(LowerSeq, k, k)
    ELSE c

RECURSIVE StrUpper(_)
StrUpper(s) == IF s = "" THEN "" ELSE ToUpper(Head(s)) \o StrUpper(Tail(s))
RECURSIVE StrLower(_)
StrLower(s) == IF s = "" THEN "" ELSE ToLower(Head(s)) \o StrLower(Tail(s))

RECURSIVE LStrip(_)
LStrip(s) == IF s # "" /\ Head(s) \in Space THEN LStrip(Tail(s)) ELSE s
RECURSIVE RStrip(_)
RStrip(s) ==
    IF s # "" /\ SubSeq(s, Len(s), Len(s)) \in Space
    THEN RStrip(SubSeq(s, 1, Len(s) - 1))
    ELSE s
Strip(s) == RStrip(LStrip(s))

StartsWith(s, p) == Len(p) <= Len(s) /\ SubSeq(s, 1, Len(p)) = p

\* s.isdigit(): non-empty and all digits
RECURSIVE AllIn(_, _)
AllIn(s, S) == s = "" \/ (Head(s) \in S /\ AllIn(Tail(s), S))
IsDigitStr(s) == s # "" /\ AllIn(s, Digit)

DigitVal(c) == CHOOSE v \in 0..9 : SubSeq("0123456789", v + 1, v + 1) = c
RECURSIVE ParseIntAcc(_, _)
ParseIntAcc(s, acc) ==
    IF s = "" THEN acc ELSE ParseIntAcc(Tail(s), 10 * acc + DigitVal(Head(s)))
\* int(s) for a string of decimal digits
ParseInt(s) == ParseIntAcc(s, 0)

RECURSIVE IntToStr(_)
\* str(n) for n >= 0
IntToStr(n) ==
    IF n < 10 THEN SubSeq("0123456789", n + 1, n + 1)
    ELSE IntToStr(n \div 10) \o SubSeq("0123456789", (n % 10) + 1, (n % 10) + 1)

EndsWith(s, p) == Len(p) <= Len(s) /\ SubSeq(s, Len(s) - Len(p) + 1, Len(s)) = p

RECURSIVE Replace(_, _, _)
\* s.replace(old, new) for a non-empty old: every occurrence, left to right
Replace(s, old, new) ==
    IF Len(s) < Len(old) THEN s
    ELSE IF StartsWith(s, old)
         THEN new \o Replace(SubSeq(s, Len(old) + 1, Len(s)), old, new)
         ELSE SubSeq(s, 1, 1) \o Replace(Tail(s), old, new)

RECURSIVE Without(_, _)
\* s with the characters of S removed (chained .replace(c, ''))
Without(s, S) ==
    IF s = "" THEN ""
    ELSE (IF Head(s) \in S THEN "" ELSE SubSeq(s, 1, 1)) \o Without(Tail(s), S)

(***************************************************************************)
(* Python's re, as far as the program's patterns use it: a backtracking    *)
(* matcher that lists the ways a pattern matches at an offset in priority  *)
(* order (the first is the match re returns).  All patterns are compiled   *)
(* with re.IGNORECASE, which the constructors build in.                    *)
(***************************************************************************)
NoCaps == << <<-1, -1>>, <<-1, -1>> >>

CaseClosure(S) == S \cup {ToUpper(c) : c \in S} \cup {ToLower(c) : c \in S}

RSet(S) == [t |-> "set", s |-> CaseClosure(S)]
RNotSet(S) == [t |-> "nset", s |-> CaseClosure(S)]
RLit(str) == [t |-> "lit", s |-> str]
RCat(rs) == [t |-> "cat", a |-> rs]
RAlt(rs) == [t |-> "alt", a |-> rs]
RRep(r, lo, hi, greedy) == [t |-> "rep", r |-> r, min |-> lo, max |-> hi, greedy |-> greedy]
RStar(r) == RRep(r, 0, -1, TRUE)
RPlus(r) == RRep(r, 1, -1, TRUE)
ROpt(r) == RRep(r, 0, 1, TRUE)
RLazyStar(r) == RRep(r, 0, -1, FALSE)
RGrp(n, r) == [t |-> "grp", n |-> n, r |-> r]
RNotAhead(r) == [t |-> "nla", r |-> r]
RWordB == [t |-> "wb"]
RBol == [t |-> "bol"]
REol == [t |-> "eol"]

IsWordAt(txt, i) == i >= 0 /\ i < Len(txt) /\ At(txt, i) \in WordCh

RECURSIVE M(_, _, _, _)
RECURSIVE MSeq(_, _, _, _, _)
RECURSIVE MSeqAll(_, _, _, _)
RECURSIVE MAlt(_, _, _, _, _)
RECURSIVE MRep(_, _, _, _, _)
RECURSIVE MRepAll(_, _, _, _)

\* the matches of rs[k..] after each of the partial matches res
MSeqAll(res, rs, k, txt) ==
    IF res = <<>> THEN <<>>
    ELSE MSeq(rs, k, txt, Head(res)[1], Head(res)[2]) \o MSeqAll(Tail(res), rs, k, txt)

MSeq(rs, k, txt, i, caps) ==
    IF k > Len(rs) THEN << <<i, caps>> >>
    ELSE MSeqAll(M(rs[k], txt, i, caps), rs, k + 1, txt)

MAlt(rs, k, txt, i, caps) ==
    IF k > Len(rs) THEN <<>>
    ELSE M(rs[k], txt, i, caps) \o MAlt(rs, k + 1, txt, i, caps)

MRepAll(res, r, n, txt) ==
    IF res = <<>> THEN <<>>
    ELSE MRep(r, n, txt, Head(res)[1], Head(res)[2]) \o MRepAll(Tail(res), r, n, txt)

\* n iterations of r.r are done
MRep(r, n, txt, i, caps) ==
    LET Order(more, stop) == IF r.greedy THEN more \o stop ELSE stop \o more
    IN Order(IF r.max = -1 \/ n < r.max
             THEN MRepAll(SelectSeq(M(r.r, txt, i, caps), LAMBDA x : x[1] > i),
                          r, n + 1, txt)
             ELSE <<>>,
             IF n >= r.min THEN << <<i, caps>> >> ELSE <<>>)

M(r, txt, i, caps) ==
    CASE r.t = "set" ->
           IF i < Len(txt) /\ At(txt, i) \in r.s THEN << <<i + 1, caps>> >> ELSE <<>>
      [] r.t = "nset" ->
           IF i < Len(txt) /\ At(txt, i) \notin r.s THEN << <<i + 1, caps>> >> ELSE <<>>
      [] r.t = "lit" ->
           IF i + Len(r.s) <= Len(txt)
              /\ StrUpper(Slice(txt, i, i + Len(r.s))) = StrUpper(r.s)
           THEN << <<i + Len(r.s), caps>> >> ELSE <<>>
      [] r.t = "cat" -> MSeq(r.a, 1, txt, i, caps)
      [] r.t = "alt" -> MAlt(r.a, 1, txt, i, caps)
      [] r.t = "rep" -> MRep(r, 0, txt, i, caps)
      [] r.t = "grp" ->
           LET Capture(res) ==
                   [k \in 1..Len(res) |->
                      <<res[k][1], [res[k][2] EXCEPT ![r.n] = <<i, res[k][1]>>]>>]
           IN Capture(M(r.r, txt, i, caps))
      [] r.t = "nla" -> IF M(r.r, txt, i, caps) = <<>> THEN << <<i, caps>> >> ELSE <<>>
      [] r.t = "wb" ->
           IF IsWordAt(txt, i - 1) # IsWordAt(txt, i) THEN << <<i, caps>> >> ELSE <<>>
      [] r.t = "bol" -> IF i = 0 THEN << <<i, caps>> >> ELSE <<>>
      [] r.t = "eol" ->
           IF i = Len(txt) \/ (i = Len(txt) - 1 /\ At(txt, i) = "\n")
           THEN << <<i, caps>> >> ELSE <<>>

NoMatch == [found |-> FALSE, start |-> -1, end |-> -1, caps |-> NoCaps]

\* re.match(r, txt): anchored at offset i
MatchAt(r, txt, i) ==
    LET First(res) ==
            IF res = <<>> THEN NoMatch
            ELSE [found |-> TRUE, start |-> i, end |-> res[1][1], caps |-> res[1][2]]
    IN First(M(r, txt, i, NoCaps))

RECURSIVE SearchFrom(_, _, _)
\* re.search(r, txt) scanning from offset i
SearchFrom(r, txt, i) ==
    IF i > Len(txt) THEN NoMatch
    ELSE LET Here(m) == IF m.found THEN m ELSE SearchFrom(r, txt, i + 1)
         IN Here(MatchAt(r, txt, i))

Search(r, txt) == SearchFrom(r, txt, 0)

RECURSIVE FindIterFrom(_, _, _)
\* list(re.finditer(r, txt)): the non-overlapping matches, left to right
FindIterFrom(r, txt, i) ==
    LET Rest(m) ==
            IF ~m.found THEN <<>>
            ELSE <<m>> \o FindIterFrom(r, txt,
                                       IF m.end > m.start THEN m.end ELSE m.end + 1)
    IN Rest(SearchFrom(r, txt, i))

FindIter(r, txt) == FindIterFrom(r, txt, 0)

\* match.group(n) / match.group(0)
Group(m, txt, n) == Slice(txt, m.caps[n][1], m.caps[n][2])
Group0(m, txt) == Slice(txt, m.start, m.end)

(***************************************************************************)
(* State                                                                   *)
(***************************************************************************)
VARIABLES
    fs,          \* the file system: folder -> os.listdir(folder)
    word,        \* the fields of the WordAutoLinkerCOM instance
    excel,       \* the fields of the ExcelAutoLinker instance
    app,         \* the Tk variables of ExhibitAnchorApp the handlers read
    range_text,  \* range_obj.Text: the live text of the region being processed
    hyperlinks,  \* range_obj.Hyperlinks: the links added to the region, in order
    scan,        \* the locals of the running process_range_for_hyperlinks call
    call         \* the pure call under test: its arguments and its result

vars == <<fs, word, excel, app, range_text, hyperlinks, scan, call>>

None == "<None>"

(***************************************************************************)
(* WordAutoLinkerCOM.__init__: the ordered exhibit patterns                *)
(***************************************************************************)
NumId == RCat(<<RPlus(RSet(Digit)), ROpt(RSet(Upper))>>)   \* (\d+[A-Z]?)
LetterId == RSet(Upper)                                    \* ([A-Z])

exhibit_patterns == <<
    RCat(<<RLit("Ex."), RStar(RSet(Space)), RGrp(1, NumId)>>),
    RCat(<<RLit("Ex."), RStar(RSet(Space)), RGrp(1, LetterId)>>),
    RCat(<<RLit("Exhibit"), RStar(RSet(Space)), RGrp(1, NumId)>>),
    RCat(<<RLit("Exhibit"), RStar(RSet(Space)), RGrp(1, LetterId)>>),
    RCat(<<RLit("Ex."), RGrp(1, NumId)>>),
    RCat(<<RLit("Ex."), RGrp(1, LetterId)>>),
    RCat(<<RLit("Ex"), RPlus(RSet(Space)), RGrp(1, NumId)>>),
    RCat(<<RLit("Ex"), RPlus(RSet(Space)), RGrp(1, LetterId)>>),
    RCat(<<RLit("Ex_"), RGrp(1, NumId)>>),
    RCat(<<RLit("Ex_"), RGrp(1, LetterId)>> ) >>

(***************************************************************************)
(* WordAutoLinkerCOM.find_matching_exhibit_files                           *)
(***************************************************************************)
possible_prefixes(identifier) == <<
    "Ex. " \o identifier,
    "Ex." \o identifier,
    "Ex " \o identifier,
    "Ex_" \o identifier,
    "Exhibit " \o identifier,
    "Exhibit_" \o identifier >>

Separators == {"_", "-", ".", " "}

\* mutant: the character after the prefix is not looked at
FilesForPrefix_AnyNextChar(target_prefix, files_in_folder) ==
    SelectSeq(files_in_folder, LAMBDA filename : StartsWith(filename, target_prefix))

\* mutant: '-' is not taken as a separator
FilesForPrefix_NoHyphen(target_prefix, files_in_folder) ==
    SelectSeq(files_in_folder, LAMBDA filename :
        /\ StartsWith(filename, target_prefix)
        /\ \/ Len(target_prefix) >= Len(filename)
           \/ At(filename, Len(target_prefix)) \in {"_", ".", " "})

\* the inner loop over files_in_folder for one target_prefix
FilesForPrefix(target_prefix, files_in_folder) ==
    SelectSeq(files_in_folder, LAMBDA filename :
        /\ StartsWith(filename, target_prefix)
        /\ \/ Len(target_prefix) >= Len(filename)
           \/ At(filename, Len(target_prefix)) \in Separators)

RECURSIVE TryPrefixes_NoBreak(_, _, _)
\* mutant: the loop over the prefixes does not stop at the first that matches
TryPrefixes_NoBreak(prefixes, k, files_in_folder) ==
    IF k > Len(prefixes) THEN <<>>
    ELSE FilesForPrefix(prefixes[k], files_in_folder)
             \o TryPrefixes_NoBreak(prefixes, k + 1, files_in_folder)

RECURSIVE TryPrefixes(_, _, _)
\* the loop over possible_prefixes from index k: stop at the first that matches
TryPrefixes(prefixes, k, files_in_folder) ==
    IF k > Len(prefixes) THEN <<>>
    ELSE LET matching_files == FilesForPrefix(prefixes[k], files_in_folder)
         IN IF matching_files # <<>> THEN matching_files
            ELSE TryPrefixes(prefixes, k + 1, files_in_folder)

RECURSIVE TryPatterns(_, _, _, _)
\* the loop over the exhibit patterns from index p: stop at the first that yields files
TryPatterns(patterns, p, reference_text, files_in_folder) ==
    IF p > Len(patterns) THEN <<>>
    ELSE LET match == Search(patterns[p], reference_text)
             matching_files ==
                 IF match.found
                 THEN TryPrefixes(possible_prefixes(Group(match, reference_text, 1)),
                                  1, files_in_folder)
                 ELSE <<>>
         IN IF matching_files # <<>> THEN matching_files
            ELSE TryPatterns(patterns, p + 1, reference_text, files_in_folder)

find_matching_exhibit_files(reference_text, files_in_folder) ==
    TryPatterns(exhibit_patterns, 1, reference_text, files_in_folder)

(***************************************************************************)
(* WordAutoLinkerCOM: the Bates index and the Bates lookup                 *)
(***************************************************************************)
NonePage == 0 - 1            \* Python's None where a page number is expected
NoInfo == [filename |-> None, path |-> None, start_page |-> NonePage]

PathJoin(folder, filename) == folder \o "/" \o filename

\* rf'^{re.escape(prefix)}(\d+)\.pdf$'
bates_file_pattern(bates_prefix) ==
    RCat(<<RBol, RLit(bates_prefix), RGrp(1, RPlus(RSet(Digit))), RLit(".pdf"), REol>>)

\* the number a file name carries, NonePage when re.match fails
BatesNumberOf(filename, bates_prefix) ==
    LET match == MatchAt(bates_file_pattern(bates_prefix), filename, 0)
    IN IF match.found THEN ParseInt(Group(match, filename, 1)) ELSE NonePage

\* build_bates_pdf_map: the dict keyed by starting number.  bates_files is sorted
\* by number with a stable sort, so of two files with the same number the one
\* listed later is assigned last and stays.
build_bates_pdf_map(target_folder, bates_prefix, fsys) ==
    IF target_folder = None \/ bates_prefix = "" THEN <<>>
    ELSE LET files_in_folder == fsys[target_folder]
             Index(number) ==
                 LET idx == {i \in DOMAIN number : number[i] # NonePage}
                     last(k) == CHOOSE i \in idx :
                                  /\ number[i] = k
                                  /\ \A j \in idx : number[j] = k => j <= i
                 IN [k \in {number[i] : i \in idx} |->
                       [filename |-> files_in_folder[last(k)],
                        path |-> PathJoin(target_folder, files_in_folder[last(k)]),
                        start_page |-> k]]
         IN Index([i \in 1..Len(files_in_folder) |->
                     BatesNumberOf(files_in_folder[i], bates_prefix)])

RECURSIVE SortedDesc(_)
\* sorted(keys, reverse=True)
SortedDesc(S) ==
    IF S = {} THEN <<>>
    ELSE LET m == CHOOSE x \in S : \A y \in S : y <= x
         IN <<m>> \o SortedDesc(S \ {m})

RECURSIVE ScanStarts(_, _, _)
\* the loop over sorted_starts: the first start <= bates_number wins
ScanStarts(sorted_starts, bates_pdf_map, bates_number) ==
    IF sorted_starts = <<>> THEN [path |-> None, page |-> NonePage]
    ELSE LET start_page == Head(sorted_starts)
         IN IF bates_number >= start_page
            THEN [path |-> bates_pdf_map[start_page].path,
                  page |-> bates_number - start_page + 1]
            ELSE ScanStarts(Tail(sorted_starts), bates_pdf_map, bates_number)

RECURSIVE Reverse(_)
Reverse(q) == IF q = <<>> THEN <<>> ELSE Reverse(Tail(q)) \o <<Head(q)>>

\* mutant: the starts are scanned in ascending order
find_bates_pdf_and_page_Ascending(bates_pdf_map, bates_number) ==
    IF DOMAIN bates_pdf_map = {} THEN [path |-> None, page |-> NonePage]
    ELSE ScanStarts(Reverse(SortedDesc(DOMAIN bates_pdf_map)), bates_pdf_map, bates_number)

find_bates_pdf_and_page(bates_pdf_map, bates_number) ==
    IF DOMAIN bates_pdf_map = {} THEN [path |-> None, page |-> NonePage]
    ELSE ScanStarts(SortedDesc(DOMAIN bates_pdf_map), bates_pdf_map, bates_number)

\* get_bates_patterns: rf'{escaped_prefix}(\d+)'
get_bates_patterns(bates_prefix) ==
    IF bates_prefix = "" THEN <<>>
    ELSE << RCat(<<RLit(bates_prefix), RGrp(1, RPlus(RSet(Digit)))>>) >>

\* a file_info of Bates mode; an exhibit file_info is the bare path
BatesInfo(path, page, bates_number) ==
    [type |-> "bates", path |-> path, page |-> page, bates_number |-> bates_number]
FileInfo(path) ==
    [type |-> "file", path |-> path, page |-> NonePage, bates_number |-> NonePage]

\* find_matching_bates_files: at most one entry, and only for a truthy path and page
find_matching_bates_files(reference_text, bates_prefix, bates_pdf_map) ==
    LET bates_patterns == get_bates_patterns(bates_prefix)
        match == IF bates_patterns = <<>> THEN NoMatch
                 ELSE Search(bates_patterns[1], reference_text)
    IN IF ~match.found THEN <<>>
       ELSE LET bates_number == ParseInt(Group(match, reference_text, 1))
                r == find_bates_pdf_and_page(bates_pdf_map, bates_number)
            IN IF r.path # None /\ r.page # NonePage /\ r.page # 0
               THEN << BatesInfo(r.path, r.page, bates_number) >>
               ELSE <<>>

\* find_matching_files: the dispatch on the mode (exhibit paths are joined to the folder)
find_matching_files(w, reference_text, fsys) ==
    IF w.target_folder = None THEN <<>>
    ELSE IF w.bates_mode
         THEN find_matching_bates_files(reference_text, w.bates_prefix, w.bates_pdf_map)
         ELSE LET names == find_matching_exhibit_files(reference_text, fsys[w.target_folder])
              IN [k \in 1..Len(names) |-> FileInfo(PathJoin(w.target_folder, names[k]))]

(***************************************************************************)
(* WordAutoLinkerCOM.build_page_pattern and find_page_number_in_text       *)
(***************************************************************************)
NoPattern == [t |-> "none"]

RSpaces0 == RStar(RSet(Space))     \* \s*
RSpaces1 == RPlus(RSet(Space))     \* \s+
RDigits == RPlus(RSet(Digit))      \* \d+
ROptDot == ROpt(RLit("."))         \* \.?

\* Step 1: the identifier of the first exhibit pattern that matches the citation
RECURSIVE FirstExhibitId(_, _, _)
FirstExhibitId(patterns, p, citation) ==
    IF p > Len(patterns) THEN None
    ELSE LET match == Search(patterns[p], citation)
         IN IF match.found THEN Group(match, citation, 1)
            ELSE FirstExhibitId(patterns, p + 1, citation)

\* Step 2: the page-reference forms, page_num escaped and boundary-anchored
page_patterns(page_num) == <<
    RCat(<<RWordB, RLit("at"), RSpaces1, RLit("p"), ROptDot, RSpaces0, RLit(page_num), RWordB>>),
    RCat(<<RWordB, RLit("at"), RSpaces1, RLit("pp"), ROptDot, RSpaces0, RLit(page_num), RWordB>>),
    RCat(<<RWordB, RLit("at"), RSpaces1, RLit(page_num), RWordB>>),
    RCat(<<RWordB, RLit("p"), ROptDot, RSpaces0, RLit(page_num), RWordB>>),
    RCat(<<RWordB, RLit("pp"), ROptDot, RSpaces0, RLit(page_num), RWordB>>),
    RCat(<<RWordB, RLit("page"), RSpaces1, RLit(page_num), RWordB>>),
    RCat(<<RWordB, RLit("page"), ROpt(RLit("s")), RSpaces1, RLit(page_num), RWordB>>),
    RCat(<<RWordB, RLit(page_num), RWordB>>) >>

RECURSIVE FirstPageType(_, _, _)
\* the index (from 0, as enumerate gives it) of the first form with a match, else -1
FirstPageType(patterns, i, citation) ==
    IF i >= Len(patterns) THEN 0 - 1
    ELSE IF FindIter(patterns[i + 1], citation) # <<>> THEN i
         ELSE FirstPageType(patterns, i + 1, citation)

\* mutant: the identifier group takes digits only, (\d+)
exhibit_capture_DigitsOnly == RGrp(1, RDigits)

\* Step 3: (\d+[A-Za-z]*|[A-Za-z]+\d*|[A-Za-z]+)
exhibit_capture ==
    RGrp(1, RAlt(<<RCat(<<RDigits, RStar(RSet(Upper))>>),
                   RCat(<<RPlus(RSet(Upper)), RStar(RSet(Digit))>>),
                   RPlus(RSet(Upper))>>))

page_capture(pattern_type) ==
    CASE pattern_type \in {0, 1} ->
           RCat(<<RLit("at"), RSpaces1, RLit("p"), ROpt(RLit("p")), ROptDot, RSpaces0,
                  RGrp(2, RDigits)>>)
      [] pattern_type = 2 -> RCat(<<RLit("at"), RSpaces1, RGrp(2, RDigits)>>)
      [] pattern_type = 3 -> RCat(<<RLit("p"), ROptDot, RSpaces0, RGrp(2, RDigits)>>)
      [] pattern_type = 4 -> RCat(<<RLit("pp"), ROptDot, RSpaces0, RGrp(2, RDigits)>>)
      [] pattern_type = 5 -> RCat(<<RLit("page"), RSpaces1, RGrp(2, RDigits)>>)
      [] pattern_type = 6 ->
           RCat(<<RLit("page"), ROpt(RLit("s")), RSpaces1, RGrp(2, RDigits)>>)
      [] OTHER -> RGrp(2, RDigits)

\* (?:Ex\.|Exhibit)\s*<exhibit_capture>(?:(?!(?:Ex\.|Exhibit)\s*\w)[^.]*?)<page_capture>
full_pattern(pattern_type) ==
    RCat(<<RAlt(<<RLit("Ex."), RLit("Exhibit")>>), RSpaces0, exhibit_capture,
           RNotAhead(RCat(<<RAlt(<<RLit("Ex."), RLit("Exhibit")>>), RSpaces0, RSet(WordCh)>>)),
           RLazyStar(RNotSet({"."})),
           page_capture(pattern_type)>>)

BuildFailed(why) == [ok |-> FALSE, why |-> why, pattern |-> NoPattern]

\* mutant: Step 4 only tests that the pattern matches, not what it captures
build_page_pattern_NoGroupCheck(exemplary_citation, exemplary_page_number) ==
    LET citation == exemplary_citation
        page_num == IntToStr(exemplary_page_number)
        exhibit_id == FirstExhibitId(exhibit_patterns, 1, citation)
        pattern_type == FirstPageType(page_patterns(page_num), 0, citation)
    IN IF exhibit_id = None THEN BuildFailed("NoExhibitFound")
       ELSE IF pattern_type < 0 THEN BuildFailed("NoPageFound")
       ELSE IF ~Search(full_pattern(pattern_type), citation).found
            THEN BuildFailed("ValidationFailed")
            ELSE [ok |-> TRUE, why |-> "", pattern |-> full_pattern(pattern_type)]

\* build_page_pattern, as a function of the two exemplar fields it reads: what it
\* returns and, when it returns True, the pattern it assigns.  The second search
\* with re.DOTALL repeats the first: the pattern holds no unescaped dot.
build_page_pattern(exemplary_citation, exemplary_page_number) ==
    LET citation == exemplary_citation
        page_num == IntToStr(exemplary_page_number)
        exhibit_id == FirstExhibitId(exhibit_patterns, 1, citation)
        pattern_type == FirstPageType(page_patterns(page_num), 0, citation)
    IN IF exhibit_id = None THEN BuildFailed("NoExhibitFound")
       ELSE IF pattern_type < 0 THEN BuildFailed("NoPageFound")
       ELSE LET test_match == Search(full_pattern(pattern_type), citation)
            IN IF ~test_match.found THEN BuildFailed("ValidationFailed")
               ELSE LET found_exhibit == Group(test_match, citation, 1)
                        found_page == Group(test_match, citation, 2)
                    IN IF StrUpper(found_exhibit) = StrUpper(exhibit_id)
                          /\ found_page = page_num
                       THEN [ok |-> TRUE, why |-> "",
                             pattern |-> full_pattern(pattern_type)]
                       ELSE BuildFailed("ValidationFailed")

\* find_page_number_in_text: the (exhibit_id, page_number) of every match, in
\* order.  Under its guard it returns the pair (None, None) instead of a list:
\* none_pair tells the two apart, because the pair is truthy for the caller.
find_page_number_in_text(w, text) ==
    IF ~w.page_automation_enabled \/ w.page_pattern_regex = NoPattern
    THEN [none_pair |-> TRUE, results |-> <<>>]
    ELSE LET matches == FindIter(w.page_pattern_regex, text)
         IN [none_pair |-> FALSE,
             results |-> [k \in 1..Len(matches) |->
               [exhibit_id |-> Group(matches[k], text, w.exhibit_group_index),
                page_number |-> ParseInt(Group(matches[k], text, w.page_group_index))]]]

(***************************************************************************)
(* The configuration methods of a linker (w is the linker's record)        *)
(***************************************************************************)
\* WordAutoLinkerCOM.set_bates_mode
set_bates_mode(w, enabled, prefix, fsys) ==
    LET w1 == [w EXCEPT !.bates_mode = enabled, !.bates_prefix = Strip(prefix)]
    IN IF enabled
       THEN [w1 EXCEPT !.bates_pdf_map =
                 build_bates_pdf_map(w1.target_folder, w1.bates_prefix, fsys)]
       ELSE w1

\* the linker after its build_bates_pdf_map()
WithBatesMap(w, fsys) ==
    [w EXCEPT !.bates_pdf_map = build_bates_pdf_map(w.target_folder, w.bates_prefix, fsys)]

\* WordAutoLinkerCOM.select_exhibit_folder; folder_path is the dialog's answer,
\* None when it is cancelled
select_exhibit_folder(w, folder_path, fsys) ==
    IF folder_path = None THEN w
    ELSE LET Chosen(w1) == IF w1.bates_mode THEN WithBatesMap(w1, fsys) ELSE w1
         IN Chosen([w EXCEPT !.target_folder = folder_path])

\* WordAutoLinkerCOM.select_word_document, lines 581-594: the fields it stores
\* once the working copy of the chosen document is open
select_word_document(w, original_dir, fsys) ==
    LET Opened(w1) == IF w1.bates_mode THEN WithBatesMap(w1, fsys) ELSE w1
    IN Opened([w EXCEPT !.doc = TRUE, !.doc_folder = original_dir,
                        !.target_folder = original_dir])

\* ExcelAutoLinker.set_mode: the index is rebuilt only in Bates mode and only
\* when a target folder is set
set_mode(x, mode, bates_prefix, fsys) ==
    LET Stored(x1) == IF mode = "bates" /\ x1.target_folder # None
                      THEN WithBatesMap(x1, fsys) ELSE x1
    IN Stored([x EXCEPT !.mode = mode, !.bates_prefix = Strip(bates_prefix)])

\* set_page_automation of either linker; build_page_pattern assigns the pattern
\* and the two group indexes only on the path where it returns True
set_page_automation(w, enabled, exemplary_citation, exemplary_page_number) ==
    LET w1 == [w EXCEPT !.page_automation_enabled = enabled,
                        !.exemplary_citation = Strip(exemplary_citation),
                        !.exemplary_page_number = exemplary_page_number]
    IN IF enabled /\ w1.exemplary_citation # ""
          /\ exemplary_page_number # NonePage /\ exemplary_page_number # 0
       THEN LET built == build_page_pattern(w1.exemplary_citation,
                                            w1.exemplary_page_number)
            IN IF built.ok
               THEN [w1 EXCEPT !.page_pattern_regex = built.pattern,
                               !.exhibit_group_index = 1,
                               !.page_group_index = 2]
               ELSE w1
       ELSE [w1 EXCEPT !.page_pattern_regex = NoPattern,
                       !.exhibit_group_index = 0,
                       !.page_group_index = 0]

(***************************************************************************)
(* WordAutoLinkerCOM.process_range_for_hyperlinks: extraction              *)
(***************************************************************************)
Min(a, b) == IF a < b THEN a ELSE b
Max(a, b) == IF a > b THEN a ELSE b

\* s[a:b] of Python, which clamps both ends to the string
PySlice(s, a, b) ==
    LET lo == Min(Max(a, 0), Len(s))
        hi == Min(Max(b, 0), Len(s))
    IN IF hi <= lo THEN "" ELSE SubSeq(s, lo + 1, hi)

\* sub in s
Contains(s, sub) == \E i \in 0..(Len(s) - Len(sub)) : Slice(s, i, i + Len(sub)) = sub

\* any(start <= start_pos < end for start, end in matched_positions)
OverlapsMatched(start_pos, references) ==
    \E k \in 1..Len(references) :
        references[k].start_pos <= start_pos /\ start_pos < references[k].end_pos

RECURSIVE ExtractMatches_KeepsUnresolved(_, _, _, _, _, _)
\* mutant: a match is accepted whether or not a file was found for it
ExtractMatches_KeepsUnresolved(matches, k, references, w, text, fsys) ==
    IF k > Len(matches) THEN references
    ELSE LET Keep(match, reference, matching_files) ==
                 IF OverlapsMatched(match.start, references)
                 THEN ExtractMatches_KeepsUnresolved(matches, k + 1, references,
                                                     w, text, fsys)
                 ELSE ExtractMatches_KeepsUnresolved(matches, k + 1,
                          Append(references,
                                 [reference |-> reference, start_pos |-> match.start,
                                  end_pos |-> match.end,
                                  file_info |-> IF matching_files = <<>>
                                                THEN FileInfo(PathJoin(w.target_folder,
                                                                       reference))
                                                ELSE matching_files[1],
                                  found_start |-> match.start,
                                  found_end |-> match.end]),
                          w, text, fsys)
         IN Keep(matches[k], Group0(matches[k], text),
                 find_matching_files(w, Group0(matches[k], text), fsys))

RECURSIVE ExtractMatches(_, _, _, _, _, _)
\* the inner loop over re.finditer(pattern, range_text) from match k
ExtractMatches(matches, k, references, w, text, fsys) ==
    IF k > Len(matches) THEN references
    ELSE LET match == matches[k]
             reference == Group0(match, text)
             matching_files == find_matching_files(w, reference, fsys)
         IN IF OverlapsMatched(match.start, references) \/ matching_files = <<>>
            THEN ExtractMatches(matches, k + 1, references, w, text, fsys)
            ELSE ExtractMatches(matches, k + 1,
                     Append(references,
                            [reference |-> reference, start_pos |-> match.start,
                             end_pos |-> match.end, file_info |-> matching_files[1],
                             found_start |-> match.start, found_end |-> match.end]),
                     w, text, fsys)

RECURSIVE ExtractPatterns(_, _, _, _, _, _)
\* the outer loop over the patterns from index p
ExtractPatterns(patterns, p, references, w, text, fsys) ==
    IF p > Len(patterns) THEN references
    ELSE ExtractPatterns(patterns, p + 1,
             ExtractMatches(FindIter(patterns[p], text), 1, references, w, text, fsys),
             w, text, fsys)

RECURSIVE SortByStartAscending(_)
\* mutant: the sort without reverse=True
SortByStartAscending(references) ==
    IF references = <<>> THEN <<>>
    ELSE LET k == CHOOSE i \in 1..Len(references) :
                    \A j \in 1..Len(references) :
                        references[i].start_pos <= references[j].start_pos
         IN <<references[k]>> \o
            SortByStartAscending([i \in 1..(Len(references) - 1) |->
                                     IF i < k THEN references[i] ELSE references[i + 1]])

RECURSIVE SortByStartReverse(_)
\* references.sort(key=start_pos, reverse=True); accepted starts are distinct
SortByStartReverse(references) ==
    IF references = <<>> THEN <<>>
    ELSE LET k == CHOOSE i \in 1..Len(references) :
                    \A j \in 1..Len(references) :
                        references[i].start_pos >= references[j].start_pos
         IN <<references[k]>> \o
            SortByStartReverse([i \in 1..(Len(references) - 1) |->
                                   IF i < k THEN references[i] ELSE references[i + 1]])

\* the early returns on the mode's marker text
RangeIsRelevant(w, text) ==
    IF w.bates_mode
    THEN w.bates_prefix # "" /\ Contains(text, w.bates_prefix)
    ELSE text # "" /\ (Contains(text, "Ex.") \/ Contains(text, "Exhibit"))

RangePatterns(w) ==
    IF w.bates_mode THEN get_bates_patterns(w.bates_prefix) ELSE exhibit_patterns

\* lines 800-841: the accepted references of a region text, sorted for the loop
ExtractReferences(w, text, fsys) ==
    IF ~RangeIsRelevant(w, text) THEN <<>>
    ELSE SortByStartReverse(ExtractPatterns(RangePatterns(w), 1, <<>>, w, text, fsys))

(***************************************************************************)
(* WordAutoLinkerCOM.process_range_for_hyperlinks: one turn of the loop    *)
(***************************************************************************)
SearchWindow == 5        \* the +-5 characters of the re-localization window
ContextChars == 150      \* the characters after the citation searched for a page

Equalish(a, b) == StrLower(Strip(a)) = StrLower(Strip(b))   \* .strip().lower() ==

\* mutant: the expected text is searched in the whole region, not in a window
Relocalize_WholeText(current_range_text, ref) ==
    LET expected_text == ref.reference
    IN IF PySlice(current_range_text, ref.start_pos, ref.end_pos) = expected_text
       THEN [ok |-> TRUE, start_pos |-> ref.start_pos, end_pos |-> ref.end_pos]
       ELSE LET local_match == Search(RLit(expected_text), current_range_text)
            IN IF local_match.found
               THEN [ok |-> TRUE, start_pos |-> local_match.start,
                     end_pos |-> local_match.end]
               ELSE [ok |-> FALSE, start_pos |-> ref.start_pos, end_pos |-> ref.end_pos]

\* lines 849-877: verify the text at the recorded span, else search the window
Relocalize(current_range_text, ref) ==
    LET expected_text == ref.reference
    IN IF PySlice(current_range_text, ref.start_pos, ref.end_pos) = expected_text
       THEN [ok |-> TRUE, start_pos |-> ref.start_pos, end_pos |-> ref.end_pos]
       ELSE LET search_window_start == Max(0, ref.start_pos - SearchWindow)
                search_window_end == Min(Len(current_range_text), ref.end_pos + SearchWindow)
                search_window == PySlice(current_range_text, search_window_start,
                                         search_window_end)
                local_match == Search(RLit(expected_text), search_window)
            IN IF local_match.found
               THEN [ok |-> TRUE,
                     start_pos |-> search_window_start + local_match.start,
                     end_pos |-> search_window_start + local_match.end]
               ELSE [ok |-> FALSE, start_pos |-> ref.start_pos, end_pos |-> ref.end_pos]

\* lines 879-921: the anchor range.  offsets_ok is the host's answer: whether the
\* duplicate range set to the offsets reads the text at those offsets (it does
\* not when an embedded object shifts Word's character count).  Otherwise
\* Find.Execute, forward from the start of the region, case-insensitive.
Locate(current_range_text, expected_text, start_pos, end_pos, offsets_ok) ==
    IF offsets_ok /\ Equalish(PySlice(current_range_text, start_pos, end_pos), expected_text)
    THEN [ok |-> TRUE, start |-> start_pos, end |-> end_pos]
    ELSE LET find == Search(RLit(expected_text), current_range_text)
         IN IF find.found /\ Equalish(Group0(find, current_range_text), expected_text)
            THEN [ok |-> TRUE, start |-> find.start, end |-> find.end]
            ELSE [ok |-> FALSE, start |-> 0, end |-> 0]

RECURSIVE FirstPageFor(_, _, _)
\* the loop over all_matches: the page of the first match with this exhibit id
FirstPageFor(results, k, current_exhibit_id) ==
    IF k > Len(results) THEN NonePage
    ELSE IF StrUpper(results[k].exhibit_id) = StrUpper(current_exhibit_id)
         THEN results[k].page_number
         ELSE FirstPageFor(results, k + 1, current_exhibit_id)

Target(raises, paged, path, page) ==
    [raises |-> raises, paged |-> paged, path |-> path, page |-> page]

\* mutant: a captured page is used whenever one was captured, 0 included
LinkTarget_PageNotNone(w, ref, range_text_snapshot) ==
    LET file_info == ref.file_info
    IN IF file_info.type = "bates"
       THEN Target(FALSE, TRUE, file_info.path, file_info.page)
       ELSE IF ~w.page_automation_enabled
            THEN Target(FALSE, FALSE, file_info.path, NonePage)
            ELSE LET context_text ==
                         PySlice(range_text_snapshot, ref.start_pos,
                                 Min(Len(range_text_snapshot), ref.end_pos + ContextChars))
                     current_exhibit_id == FirstExhibitId(exhibit_patterns, 1, ref.reference)
                     all_matches == find_page_number_in_text(w, context_text)
                 IN IF all_matches.none_pair /\ current_exhibit_id # None
                    THEN Target(TRUE, FALSE, file_info.path, NonePage)
                    ELSE LET page_number ==
                                 IF current_exhibit_id = None THEN NonePage
                                 ELSE FirstPageFor(all_matches.results, 1, current_exhibit_id)
                         IN IF page_number # NonePage
                            THEN Target(FALSE, TRUE, file_info.path, page_number)
                            ELSE Target(FALSE, FALSE, file_info.path, NonePage)

\* lines 923-983: the link target of a located reference.  In exhibit mode with
\* page automation the context is cut from the snapshot taken before the loop;
\* the (None, None) of find_page_number_in_text is truthy, and unpacking its
\* first element raises.  A page is used only when it is truthy (not 0).
LinkTarget(w, ref, range_text_snapshot) ==
    LET file_info == ref.file_info
    IN IF file_info.type = "bates"
       THEN Target(FALSE, TRUE, file_info.path, file_info.page)
       ELSE IF ~w.page_automation_enabled
            THEN Target(FALSE, FALSE, file_info.path, NonePage)
            ELSE LET context_text ==
                         PySlice(range_text_snapshot, ref.start_pos,
                                 Min(Len(range_text_snapshot), ref.end_pos + ContextChars))
                     current_exhibit_id == FirstExhibitId(exhibit_patterns, 1, ref.reference)
                     all_matches == find_page_number_in_text(w, context_text)
                 IN IF all_matches.none_pair /\ current_exhibit_id # None
                    THEN Target(TRUE, FALSE, file_info.path, NonePage)
                    ELSE LET page_number ==
                                 IF current_exhibit_id = None THEN NonePage
                                 ELSE FirstPageFor(all_matches.results, 1, current_exhibit_id)
                         IN IF page_number # NonePage /\ page_number # 0
                            THEN Target(FALSE, TRUE, file_info.path, page_number)
                            ELSE Target(FALSE, FALSE, file_info.path, NonePage)

\* What Hyperlinks.Add can do for a target (lines 988-1071).  With a page
\* fragment: "subaddress" (method 1 succeeds), "fragment" (method 1 raises,
\* method 2 keeps the fragment), "encoded" (method 2's address comes back with
\* %23page=, the link is deleted and re-added without the page), "fallback"
\* (methods 1 and 2 raise, the link is added without the page), "error" (every
\* call raises).  Without a fragment: "simple" or "error".
AddOutcomes(target) ==
    IF target.paged THEN {"subaddress", "fragment", "encoded", "fallback", "error"}
    ELSE {"simple", "error"}

KeepsPage(outcome) == outcome \in {"subaddress", "fragment"}

\* How the region's Text reads where a link with this display text was added:
\* the display text alone, or the display text inside the field's marks.
HostRenderings(display) == {display, "{" \o display \o "}"}

(***************************************************************************)
(* ExcelAutoLinker: the resolver and process_excel_column                  *)
(***************************************************************************)
\* ExcelAutoLinker.__init__: the same ten patterns, each between two \b
Excel_exhibit_patterns ==
    [p \in 1..Len(exhibit_patterns) |-> RCat(<<RWordB, exhibit_patterns[p], RWordB>>)]

RECURSIVE DropLeadingZeros(_)
\* the decimal digits of int(float(digits)): the digits without leading zeros.
\* Exact where the number is one a float holds exactly, which is every number of
\* at most 15 digits and the longer ones drawn here.
DropLeadingZeros(digits) ==
    IF Len(digits) > 1 /\ SubSeq(digits, 1, 1) = "0"
    THEN DropLeadingZeros(Tail(digits))
    ELSE IF digits = "" THEN "0" ELSE digits

\* str(int(float(s))) for a string of digits, '-' and '.'; None where float()
\* raises or the value has a fraction, and the text then stays as it is
IntegralText(s) ==
    LET Value(negative, body) ==
            LET Parts(dots) ==
                    IF Len(dots) > 1 \/ Without(body, {"."}) = ""
                          \/ ~AllIn(Without(body, {"."}), Digit)
                    THEN None
                    ELSE LET Whole(int_part, frac_part) ==
                                 IF ~AllIn(frac_part, {"0"}) THEN None
                                 ELSE LET Text(v) ==
                                              (IF negative /\ v # "0" THEN "-" ELSE "")
                                                  \o v
                                      IN Text(DropLeadingZeros(int_part))
                         IN IF dots = <<>> THEN Whole(body, "")
                            ELSE Whole(SubSeq(body, 1, dots[1] - 1),
                                       SubSeq(body, dots[1] + 1, Len(body)))
            IN Parts(SelectSeq([i \in 1..Len(body) |-> i],
                               LAMBDA i : SubSeq(body, i, i) = "."))
    IN IF StartsWith(s, "-") THEN Value(TRUE, Tail(s)) ELSE Value(FALSE, s)

\* the text without a trailing '.0' when what is left is a number (10.0 -> 10)
DropFloatSuffix(text) ==
    IF EndsWith(text, ".0") /\ IsDigitStr(Without(Replace(text, ".0", ""), {"-"}))
    THEN Replace(text, ".0", "")
    ELSE text

\* lines 2551-2569: cleaned_ref of a cell text
cleaned_ref(reference_text) ==
    LET Numeric(c) ==
            IF IsDigitStr(Without(c, {"-", "."})) /\ IntegralText(c) # None
            THEN IntegralText(c) ELSE c
    IN Numeric(DropFloatSuffix(Strip(reference_text)))

skip_words == {"exhibit", "exhibits", "ex", "number", "ref", "reference", "document", "file"}

\* lines 2636-2649: the identifier a bare cell value stands for, or None
BareIdentifier(cleaned) ==
    IF IsDigitStr(cleaned) THEN cleaned
    ELSE IF Len(cleaned) = 1 /\ AllIn(cleaned, Upper \cup Lower) THEN StrUpper(cleaned)
    ELSE IF cleaned # "" /\ Len(cleaned) <= 5 /\ AllIn(cleaned, Upper \cup Lower \cup Digit)
         THEN StrUpper(cleaned)
         ELSE None

\* ExcelAutoLinker.find_matching_exhibit_files (file names; the caller joins them)
Excel_find_matching_exhibit_files(reference_text, files_in_folder) ==
    LET Resolve(cleaned) ==
            IF StrLower(cleaned) \in skip_words \/ Len(cleaned) > 125 THEN <<>>
            ELSE LET Fallback(matching_files) ==
                         IF matching_files # <<>> THEN matching_files
                         ELSE IF cleaned = "" \/ BareIdentifier(cleaned) = None THEN <<>>
                         ELSE TryPrefixes(possible_prefixes(BareIdentifier(cleaned)),
                                          1, files_in_folder)
                 IN Fallback(TryPatterns(Excel_exhibit_patterns, 1, reference_text,
                                         files_in_folder))
    IN Resolve(cleaned_ref(reference_text))

\* ExcelAutoLinker.find_matching_files
Excel_find_matching_files(x, reference_text, fsys) ==
    IF x.target_folder = None THEN <<>>
    ELSE IF x.mode = "bates"
         THEN find_matching_bates_files(reference_text, x.bates_prefix, x.bates_pdf_map)
         ELSE LET Joined(names) ==
                      [k \in 1..Len(names) |->
                         FileInfo(PathJoin(x.target_folder, names[k]))]
              IN Joined(Excel_find_matching_exhibit_files(reference_text,
                                                          fsys[x.target_folder]))

\* lines 2882-2958: the link target of a cell.  As in the Word linker the pair
\* (None, None) of find_page_number_in_text is truthy and unpacking it raises.
Excel_LinkTarget(x, cell_text, file_info) ==
    IF file_info.type = "bates"
    THEN Target(FALSE, TRUE, file_info.path, file_info.page)
    ELSE IF ~x.page_automation_enabled
         THEN Target(FALSE, FALSE, file_info.path, NonePage)
         ELSE LET Pick(current_exhibit_id, page_matches) ==
                      IF page_matches.none_pair /\ current_exhibit_id # None
                      THEN Target(TRUE, FALSE, file_info.path, NonePage)
                      ELSE LET Use(page_number) ==
                                   IF page_number # NonePage /\ page_number # 0
                                   THEN Target(FALSE, TRUE, file_info.path, page_number)
                                   ELSE Target(FALSE, FALSE, file_info.path, NonePage)
                           IN Use(IF current_exhibit_id = None THEN NonePage
                                  ELSE FirstPageFor(page_matches.results, 1,
                                                    current_exhibit_id))
              IN Pick(FirstExhibitId(Excel_exhibit_patterns, 1, cell_text),
                      find_page_number_in_text(x, cell_text))

\* a cell of the selected column: its value (None when empty) and its link
NoLink == [method |-> "none", target |-> None, page |-> NonePage]
Cell(value) == [value |-> value, link |-> NoLink]

EmptyTexts == {"", "none", "null", "#n/a", "#value!", "#ref!"}

\* What the workbook does with the writes of lines 2961-3046: "formula" (the
\* HYPERLINK formula is stored), "add" (the formula raises, Hyperlinks.Add
\* works), "value" (both raise, the plain value is stored), "failed" (all three
\* raise), "error" (removing the old hyperlinks raises).
CellOutcomes == {"formula", "add", "value", "failed", "error"}

\* lines 2838-3059: one row of the loop: the cell afterwards, and whether it
\* counts in links_added.  Cell values are texts; numeric cells are not drawn.
ProcessCell(x, cell, outcome, fsys) ==
    LET Skip == [cell |-> cell, linked |-> FALSE]
        Row(cell_text) ==
            LET Link(matching_files) ==
                    IF matching_files = <<>> THEN Skip
                    ELSE LET Write(target) ==
                                 IF target.raises \/ outcome = "error" THEN Skip
                                 ELSE LET cleared ==
                                              IF cell.link.method = "add" THEN NoLink
                                              ELSE cell.link
                                      IN CASE outcome \in {"formula", "add"} ->
                                                [cell |-> [value |-> cell_text,
                                                           link |-> [method |-> outcome,
                                                                     target |-> target.path,
                                                                     page |-> target.page]],
                                                 linked |-> TRUE]
                                           [] outcome = "value" ->
                                                [cell |-> [value |-> cell_text,
                                                           link |-> NoLink],
                                                 linked |-> FALSE]
                                           [] outcome = "failed" ->
                                                [cell |-> [cell EXCEPT !.link = cleared],
                                                 linked |-> FALSE]
                         IN Write(Excel_LinkTarget(x, cell_text, matching_files[1]))
            IN Link(Excel_find_matching_files(x, cell_text, fsys))
    IN IF cell.value = None THEN Skip
       ELSE IF StrLower(Strip(cell.value)) \in EmptyTexts THEN Skip
       ELSE Row(DropFloatSuffix(Strip(cell.value)))

RECURSIVE CountLinked(_, _)
CountLinked(rows, k) ==
    IF k > Len(rows) THEN 0
    ELSE (IF rows[k].linked THEN 1 ELSE 0) + CountLinked(rows, k + 1)

\* ExcelAutoLinker.process_excel_column: the rows from 2 on, in order;
\* outcomes[k] is the workbook's answer for the k-th of them
process_excel_column(x, outcomes, fsys) ==
    IF ~x.worksheet \/ x.selected_column_index = 0
    THEN [cells |-> x.cells, links_added |-> 0]
    ELSE LET Done(rows) ==
                 [cells |-> [k \in 1..Len(rows) |-> rows[k].cell],
                  links_added |-> CountLinked(rows, 1)]
         IN Done([k \in 1..Len(x.cells) |-> ProcessCell(x, x.cells[k], outcomes[k], fsys)])

(***************************************************************************)
(* Construction: the three __init__ methods                                *)
(***************************************************************************)
\* WordAutoLinkerCOM.__init__; created_hyperlinks is the list of line 56, which
\* no line of the source appends to or reads
WordInit ==
    [target_folder |-> None, doc |-> FALSE, doc_folder |-> None,
     created_hyperlinks |-> <<>>,
     bates_mode |-> FALSE, bates_prefix |-> "", bates_pdf_map |-> <<>>,
     page_automation_enabled |-> FALSE, exemplary_citation |-> "",
     exemplary_page_number |-> NonePage, page_pattern_regex |-> NoPattern,
     exhibit_group_index |-> 0, page_group_index |-> 0]

\* ExcelAutoLinker.__init__; selected_column_index 0 is the code's None (columns
\* are numbered from 1), cells is the selected column from row 2 on
ExcelInit ==
    [target_folder |-> None, excel_file_path |-> None, worksheet |-> FALSE,
     cells |-> <<>>, selected_column_index |-> 0,
     mode |-> "exhibit", bates_prefix |-> "", bates_pdf_map |-> <<>>,
     page_automation_enabled |-> FALSE, exemplary_citation |-> "",
     exemplary_page_number |-> NonePage, page_pattern_regex |-> NoPattern,
     exhibit_group_index |-> 0, page_group_index |-> 0]

\* ExhibitAnchorApp.__init__: the GUI's variables (lines 3468-3481); pc is the
\* handler that is suspended inside root.update() ("mainloop" when none is),
\* runs counts the processing runs begun
AppInit == [processing_mode |-> "word",
            word_submode_var |-> "exhibit", excel_submode_var |-> "exhibit",
            bates_prefix_var |-> "", page_automation_var |-> FALSE,
            exemplary_citation_var |-> "", exemplary_page_var |-> "",
            pc |-> "mainloop", runs |-> 0]

\* no process_range_for_hyperlinks call is running
ScanIdle == [pc |-> "idle", range_text |-> "", references |-> <<>>, i |-> 0,
             links_added |-> 0, attempts |-> <<>>, result |-> 0]
CallIdle == [op |-> "none"]

Folders == {"F1", "F2"}

\* the listings of at most n distinct names of S, in any order
Listings(S, n) ==
    {q \in UNION {[1..k -> S] : k \in 0..n} :
        \A i, j \in DOMAIN q : i # j => q[i] # q[j]}

Range(q) == {q[i] : i \in DOMAIN q}

(***************************************************************************)
(* SpecResolve: the resolver's functions applied to drawn inputs           *)
(***************************************************************************)
MaxFiles == 2

ExhibitFileNames ==
    {"Ex. 3.pdf", "Ex. 3A.pdf", "Ex_3.pdf", "Ex. 3-A.pdf", "Ex.3 memo.pdf",
     "Ex 3_x.pdf", "Exhibit 3.pdf", "Exhibit_3", "Ex. 33.pdf", "Ex. E.pdf"}
CitationForms == {"Ex. ", "Ex.", "Exhibit ", "Ex ", "Ex_", "ex. "}
Identifiers == {"3", "3A", "E"}

BatesPrefixes == {"S_"}
BatesFileNames ==
    {"S_0001.pdf", "S_0051.pdf", "s_60.PDF", "S_0.pdf", "S_51.pdf", "S_7.txt"}
BatesQueries == {0, 1, 2, 50, 51, 52, 59, 60, 75}

InitResolve ==
    /\ excel = ExcelInit
    /\ app = AppInit
    /\ range_text = ""
    /\ hyperlinks = <<>>
    /\ scan = ScanIdle
    /\ \/ \E listing \in Listings(ExhibitFileNames, MaxFiles),
             form \in CitationForms, id \in Identifiers :
             /\ fs = [f \in Folders |-> IF f = "F1" THEN listing ELSE <<>>]
             /\ word = [WordInit EXCEPT !.target_folder = "F1"]
             /\ call = [op |-> "find_matching_exhibit_files", done |-> FALSE,
                        reference_text |-> form \o id, identifier |-> id,
                        bates_number |-> NonePage,
                        files |-> <<>>, path |-> None, page |-> NonePage]
       \/ \E listing \in Listings(BatesFileNames, MaxFiles),
             prefix \in BatesPrefixes, n \in BatesQueries :
             /\ fs = [f \in Folders |-> IF f = "F1" THEN listing ELSE <<>>]
             /\ word = [WordInit EXCEPT
                          !.target_folder = "F1", !.bates_mode = TRUE,
                          !.bates_prefix = prefix,
                          !.bates_pdf_map = build_bates_pdf_map("F1", prefix, fs)]
             /\ call = [op |-> "find_bates_pdf_and_page", done |-> FALSE,
                        reference_text |-> "", identifier |-> "",
                        bates_number |-> n,
                        files |-> <<>>, path |-> None, page |-> NonePage]

CallFindMatchingExhibitFiles ==
    /\ call.op = "find_matching_exhibit_files"
    /\ ~call.done
    /\ call' = [call EXCEPT
                  !.done = TRUE,
                  !.files = find_matching_exhibit_files(call.reference_text,
                                                        fs[word.target_folder])]
    /\ UNCHANGED <<fs, word, excel, app, range_text, hyperlinks, scan>>

CallFindBatesPdfAndPage ==
    /\ call.op = "find_bates_pdf_and_page"
    /\ ~call.done
    /\ LET r == find_bates_pdf_and_page(word.bates_pdf_map, call.bates_number)
       IN call' = [call EXCEPT !.done = TRUE, !.path = r.path, !.page = r.page]
    /\ UNCHANGED <<fs, word, excel, app, range_text, hyperlinks, scan>>

NextResolve == CallFindMatchingExhibitFiles \/ CallFindBatesPdfAndPage

SpecResolve == InitResolve /\ [][NextResolve]_vars

(***************************************************************************)
(* process_range_for_hyperlinks as steps: entry, one loop turn, return     *)
(***************************************************************************)
\* lines 795-843: read the text, leave on the gate, collect and sort the references
StartRange ==
    /\ scan.pc = "start"
    /\ LET references == ExtractReferences(word, range_text, fs)
       IN scan' = [scan EXCEPT
                     !.range_text = range_text,
                     !.references = references,
                     !.i = 1,
                     !.pc = IF references = <<>> THEN "done" ELSE "loop"]
    /\ UNCHANGED <<fs, word, excel, app, range_text, hyperlinks, call>>

\* mutant: a turn that gives its citation up ends the loop
SkipTurn_EndsLoop(ref, why) ==
    [scan EXCEPT
       !.references[scan.i] = ref,
       !.i = Len(scan.references) + 1,
       !.attempts = Append(scan.attempts,
                           [reference |-> ref.reference, start |-> ref.found_start,
                            outcome |-> why])]

\* mutant: a turn that gives its citation up is counted like a link
SkipTurn_Counts(ref, why) ==
    [scan EXCEPT
       !.references[scan.i] = ref,
       !.i = scan.i + 1,
       !.links_added = scan.links_added + 1,
       !.attempts = Append(scan.attempts,
                           [reference |-> ref.reference, start |-> ref.found_start,
                            outcome |-> why])]

\* a turn of the loop that ends in continue or in the except clause
SkipTurn(ref, why) ==
    [scan EXCEPT
       !.references[scan.i] = ref,
       !.i = scan.i + 1,
       !.attempts = Append(scan.attempts,
                           [reference |-> ref.reference, start |-> ref.found_start,
                            outcome |-> why])]

\* lines 846-1077: one turn of the loop over the sorted references
ProcessReference ==
    /\ scan.pc = "loop"
    /\ scan.i <= Len(scan.references)
    /\ \E offsets_ok \in BOOLEAN :
         LET current_range_text == range_text
             found == scan.references[scan.i]
             expected_text == found.reference
             where == Relocalize(current_range_text, found)
             ref == [found EXCEPT !.start_pos = where.start_pos,
                                  !.end_pos = where.end_pos]
             ref_range == Locate(current_range_text, expected_text,
                                 ref.start_pos, ref.end_pos, offsets_ok)
             target == LinkTarget(word, ref, scan.range_text)
         IN IF ~where.ok
            THEN /\ scan' = SkipTurn(ref, "not found")
                 /\ UNCHANGED <<range_text, hyperlinks>>
            ELSE IF ~ref_range.ok
            THEN /\ scan' = SkipTurn(ref, "find failed")
                 /\ UNCHANGED <<range_text, hyperlinks>>
            ELSE IF target.raises
            THEN /\ scan' = SkipTurn(ref, "exception")
                 /\ UNCHANGED <<range_text, hyperlinks>>
            ELSE \E outcome \in AddOutcomes(target) :
                   IF outcome = "error"
                   THEN /\ scan' = SkipTurn(ref, "add failed")
                        /\ UNCHANGED <<range_text, hyperlinks>>
                   ELSE \E shown \in HostRenderings(expected_text) :
                          /\ hyperlinks' = Append(hyperlinks,
                                 [anchor_start |-> ref_range.start,
                                  anchor_end |-> ref_range.end,
                                  display |-> expected_text,
                                  found_start |-> ref.found_start,
                                  path |-> target.path,
                                  fragment_page |-> target.page,
                                  paged |-> target.paged /\ KeepsPage(outcome),
                                  page |-> IF target.paged /\ KeepsPage(outcome)
                                           THEN target.page ELSE NonePage])
                          /\ range_text' =
                                 PySlice(current_range_text, 0, ref_range.start)
                                     \o shown
                                     \o PySlice(current_range_text, ref_range.end,
                                                Len(current_range_text))
                          /\ scan' = [scan EXCEPT
                                 !.references[scan.i] = ref,
                                 !.i = scan.i + 1,
                                 !.links_added = scan.links_added + 1,
                                 !.attempts = Append(scan.attempts,
                                     [reference |-> ref.reference,
                                      start |-> ref.found_start,
                                      outcome |-> "linked"])]
    /\ UNCHANGED <<fs, word, excel, app, call>>

\* line 1079: return links_added
ReturnRange ==
    /\ scan.pc = "loop"
    /\ scan.i > Len(scan.references)
    /\ scan' = [scan EXCEPT !.pc = "done", !.result = scan.links_added]
    /\ UNCHANGED <<fs, word, excel, app, range_text, hyperlinks, call>>

(***************************************************************************)
(* SpecRange: one region processed by a configured Word linker             *)
(***************************************************************************)
MaxPieces == 3

RECURSIVE Concat(_)
Concat(q) == IF q = <<>> THEN "" ELSE Head(q) \o Concat(Tail(q))

\* the region texts made of at most n of the pieces
Texts(pieces, n) == {Concat(q) : q \in UNION {[1..k -> pieces] : k \in 0..n}}

ExhibitPieces == {"Ex. 3", "Ex. 3A", "Exhibit ", " and "}
ScenarioTexts == {"See Ex. 3 and Ex. 3A for details."}
RangeExhibitFiles == {"Ex. 3.pdf", "Ex. 3A.pdf", "Ex. E.pdf"}

PagePieces == {"Ex. 3", " at p. 12", " at p. 0", " and "}
PageExemplars == {[citation |-> "Ex. 3 at p. 12", page |-> 12],
                  [citation |-> "Ex. 5", page |-> 5],
                  [citation |-> "Ex. 3 at p. 12", page |-> 0]}
PageFolder == <<"Ex. 3.pdf", "Ex. 3A.pdf">>

BatesPieces == {"S_0075", "S_0", " s_52"}
RangeBatesFiles == {"S_0001.pdf", "S_0051.pdf"}

\* a document is open and its folder is the target folder
WordOpened == [WordInit EXCEPT !.doc = TRUE, !.target_folder = "F1"]

ScanStart == [ScanIdle EXCEPT !.pc = "start"]

InitRange ==
    /\ excel = ExcelInit
    /\ app = AppInit
    /\ call = CallIdle
    /\ hyperlinks = <<>>
    /\ scan = ScanStart
    /\ \/ \E listing \in Listings(RangeExhibitFiles, MaxFiles) :
             /\ fs = [f \in Folders |-> IF f = "F1" THEN listing ELSE <<>>]
             /\ word = WordOpened
             /\ range_text \in Texts(ExhibitPieces, MaxPieces) \cup ScenarioTexts
       \/ \E ex \in PageExemplars :
             /\ fs = [f \in Folders |-> IF f = "F1" THEN PageFolder ELSE <<>>]
             /\ word = set_page_automation(WordOpened, TRUE, ex.citation, ex.page)
             /\ range_text \in Texts(PagePieces, MaxPieces)
       \/ \E listing \in Listings(RangeBatesFiles, MaxFiles), prefix \in BatesPrefixes :
             /\ fs = [f \in Folders |-> IF f = "F1" THEN listing ELSE <<>>]
             /\ word = set_bates_mode(WordOpened, TRUE, prefix, fs)
             /\ range_text \in Texts(BatesPieces, MaxPieces)

NextRange == StartRange \/ ProcessReference \/ ReturnRange

SpecRange == InitRange /\ [][NextRange]_vars

(***************************************************************************)
(* SpecSynth: set_page_automation, and through it build_page_pattern, on   *)
(* drawn exemplars, for the Word linker and for the Excel linker           *)
(***************************************************************************)
MaxSynthCalls == 2

SynthCitations ==
    {"See page 4", "Ex. 3. See p. 4", "Ex. 3 at 4 and at 25",
     "Exhibit B, Memo page 4", " ex_3a pp. 25 ", ""}
SynthPages == {0, 4, 25}

\* the three fields build_page_pattern assigns
Installed(w) == <<w.page_pattern_regex, w.exhibit_group_index, w.page_group_index>>

\* whether set_page_automation reaches its call of build_page_pattern
CallsBuild(enabled, exemplary_citation, exemplary_page_number) ==
    enabled /\ Strip(exemplary_citation) # ""
        /\ exemplary_page_number # NonePage /\ exemplary_page_number # 0

\* what the call under test was given, whether it ran build_page_pattern, what
\* that returned, and the three fields as they were when build_page_pattern began
SynthCall(n, linker, w, enabled, citation, page) ==
    [op |-> "set_page_automation", n |-> n, linker |-> linker,
     built |-> CallsBuild(enabled, citation, page),
     returned |-> CallsBuild(enabled, citation, page)
                     /\ build_page_pattern(Strip(citation), page).ok,
     before |-> Installed(w)]

InitSynth ==
    /\ fs = [f \in Folders |-> <<>>]
    /\ word = WordInit
    /\ excel = ExcelInit
    /\ app = AppInit
    /\ range_text = ""
    /\ hyperlinks = <<>>
    /\ scan = ScanIdle
    /\ call = [op |-> "none", n |-> 0]

WordSetPageAutomation ==
    /\ call.n < MaxSynthCalls
    /\ \E enabled \in BOOLEAN, citation \in SynthCitations, page \in SynthPages :
         /\ word' = set_page_automation(word, enabled, citation, page)
         /\ call' = SynthCall(call.n + 1, "word", word, enabled, citation, page)
    /\ UNCHANGED <<fs, excel, app, range_text, hyperlinks, scan>>

ExcelSetPageAutomation ==
    /\ call.n < MaxSynthCalls
    /\ \E enabled \in BOOLEAN, citation \in SynthCitations, page \in SynthPages :
         /\ excel' = set_page_automation(excel, enabled, citation, page)
         /\ call' = SynthCall(call.n + 1, "excel", excel, enabled, citation, page)
    /\ UNCHANGED <<fs, word, app, range_text, hyperlinks, scan>>

NextSynth == WordSetPageAutomation \/ ExcelSetPageAutomation

SpecSynth == InitSynth /\ [][NextSynth]_vars

(***************************************************************************)
(* SpecConfig: the handlers of ExhibitAnchorApp on both linkers, from        *)
(* construction to a processing run.  Tk runs one handler at a time, but a  *)
(* handler that calls root.update() lets the event loop dispatch the events *)
(* that are pending at that moment, and their handlers run before update()  *)
(* returns.  The progress dialog of process_word_document holds the grab    *)
(* (line 4447), so nothing of the main window is dispatched while the Word  *)
(* linker processes.  Nesting is followed one level deep, into the handlers *)
(* that return without entering the event loop themselves.  The folders'    *)
(* listings do not change while the program runs.                           *)
(***************************************************************************)
MaxRuns == 1

ConfigFolders ==
    [f \in Folders |-> IF f = "F1" THEN <<"S_0001.pdf", "S_0050.pdf">>
                                   ELSE <<"S_0040.pdf", "T_0001.pdf">>]
DocumentFolders == {"F1"}
ConfigPrefixes == {"", "S_", "T_"}
ConfigDocumentText == "See S_0052 and T_0002."
ConfigCells == << Cell("S_0052, T_0002") >>

RECURSIVE DirName(_)
\* os.path.dirname
DirName(path) ==
    IF path = "" THEN ""
    ELSE IF SubSeq(path, Len(path), Len(path)) = "/" THEN SubSeq(path, 1, Len(path) - 1)
    ELSE DirName(SubSeq(path, 1, Len(path) - 1))

\* the event loop is idle: any handler can be dispatched
AtMainloop ==
    app.pc = "mainloop" /\ scan.pc \notin {"start", "loop"} /\ app.runs < MaxRuns

\* ... or a handler is suspended in root.update() (lines 4182, 4741)
Dispatchable == AtMainloop \/ app.pc \in {"browse_word_document", "process_excel_document"}

InitConfig ==
    /\ fs = ConfigFolders
    /\ word = WordInit
    /\ excel = ExcelInit
    /\ app = AppInit
    /\ range_text = ""
    /\ hyperlinks = <<>>
    /\ scan = ScanIdle
    /\ call = CallIdle

\* the mode radio buttons set processing_mode; on_mode_changed redraws
SetProcessingMode ==
    /\ Dispatchable
    /\ \E mode \in {"word", "excel"} \ {app.processing_mode} :
         app' = [app EXCEPT !.processing_mode = mode]
    /\ UNCHANGED <<fs, word, excel, range_text, hyperlinks, scan, call>>

\* the sub-mode radio buttons of the Word panel (on_word_submode_changed redraws)
SetWordSubmode ==
    /\ Dispatchable
    /\ app.processing_mode = "word"
    /\ \E submode \in {"exhibit", "bates"} \ {app.word_submode_var} :
         app' = [app EXCEPT !.word_submode_var = submode]
    /\ UNCHANGED <<fs, word, excel, range_text, hyperlinks, scan, call>>

\* the sub-mode radio buttons of the Excel panel (on_excel_submode_changed redraws)
SetExcelSubmode ==
    /\ Dispatchable
    /\ app.processing_mode = "excel"
    /\ \E submode \in {"exhibit", "bates"} \ {app.excel_submode_var} :
         app' = [app EXCEPT !.excel_submode_var = submode]
    /\ UNCHANGED <<fs, word, excel, range_text, hyperlinks, scan, call>>

\* typing into the prefix entry
SetBatesPrefix ==
    /\ Dispatchable
    /\ \E prefix \in ConfigPrefixes \ {app.bates_prefix_var} :
         app' = [app EXCEPT !.bates_prefix_var = prefix]
    /\ UNCHANGED <<fs, word, excel, range_text, hyperlinks, scan, call>>

\* lines 4348-4355 and 4385-4392: the mode settings the folder handlers push
\* into the linker of the current processing mode
WordModeSettings(w, a, fsys) ==
    IF a.word_submode_var = "bates"
    THEN set_bates_mode(w, TRUE, a.bates_prefix_var, fsys)
    ELSE set_bates_mode(w, FALSE, "", fsys)

ExcelModeSettings(x, a, fsys) ==
    IF a.excel_submode_var = "bates"
    THEN set_mode(x, "bates", a.bates_prefix_var, fsys)
    ELSE set_mode(x, "exhibit", "", fsys)

\* browse_word_document up to its root.update() (lines 4169-4182)
BrowseWordDocument ==
    /\ AtMainloop
    /\ app.processing_mode = "word"
    /\ word' = WordModeSettings(word, app, fs)
    /\ app' = [app EXCEPT !.pc = "browse_word_document"]
    /\ UNCHANGED <<fs, excel, range_text, hyperlinks, scan, call>>

\* browse_word_document from select_word_document on (lines 4184-4202);
\* original_dir is None when the dialog is cancelled
SelectWordDocument ==
    /\ app.pc = "browse_word_document"
    /\ \E original_dir \in DocumentFolders \cup {None} :
         IF original_dir = None
         THEN UNCHANGED <<word, range_text, hyperlinks>>
         ELSE /\ word' = select_word_document(word, original_dir, fs)
              /\ range_text' = ConfigDocumentText
              /\ hyperlinks' = <<>>
    /\ app' = [app EXCEPT !.pc = "mainloop"]
    /\ UNCHANGED <<fs, excel, scan, call>>

\* browse_excel_file: its root.update() comes before anything else it does
BrowseExcelFile ==
    /\ AtMainloop
    /\ app.processing_mode = "excel"
    /\ \E original_dir \in DocumentFolders :
         excel' = [excel EXCEPT !.excel_file_path = PathJoin(original_dir, "book.xlsx"),
                                !.worksheet = TRUE,
                                !.cells = ConfigCells]
    /\ UNCHANGED <<fs, word, app, range_text, hyperlinks, scan, call>>

\* select_excel_column, when a column is chosen in its dialog (the sheet has
\* one column; choosing it again changes nothing)
SelectExcelColumn ==
    /\ AtMainloop
    /\ app.processing_mode = "excel"
    /\ excel.worksheet
    /\ excel.selected_column_index = 0
    /\ excel' = [excel EXCEPT !.selected_column_index = 1]
    /\ UNCHANGED <<fs, word, app, range_text, hyperlinks, scan, call>>

\* browse_folder; folder_path is None when the dialog is cancelled.  The Excel
\* branch stores the folder itself (line 4359), after set_mode has run.
BrowseFolder ==
    /\ Dispatchable
    /\ \E folder_path \in Folders \cup {None} :
         \/ /\ app.processing_mode = "word"
            /\ word.doc
            /\ word' = select_exhibit_folder(WordModeSettings(word, app, fs),
                                             folder_path, fs)
            /\ UNCHANGED excel
         \/ /\ app.processing_mode = "excel"
            /\ excel.excel_file_path # None
            /\ excel' = [ExcelModeSettings(excel, app, fs) EXCEPT
                           !.target_folder = IF folder_path # None THEN folder_path ELSE @]
            /\ UNCHANGED word
    /\ UNCHANGED <<fs, app, range_text, hyperlinks, scan, call>>

\* use_document_folder: the folder is stored first, the mode settings follow
UseDocumentFolder ==
    /\ Dispatchable
    /\ \/ /\ app.processing_mode = "word"
          /\ word.doc_folder # None
          /\ word' = WordModeSettings([word EXCEPT !.target_folder = word.doc_folder],
                                      app, fs)
          /\ UNCHANGED excel
       \/ /\ app.processing_mode = "excel"
          /\ excel.excel_file_path # None
          /\ excel' = ExcelModeSettings(
                          [excel EXCEPT !.target_folder = DirName(excel.excel_file_path)],
                          app, fs)
          /\ UNCHANGED word
    /\ UNCHANGED <<fs, app, range_text, hyperlinks, scan, call>>

\* lines 4614-4630 and 4719-4735: the arguments of the handler's
\* set_page_automation call; ok is FALSE where the handler shows an error and
\* returns.  The page field holds decimal digits or is empty.
PageAutomationArgs(a, is_bates) ==
    IF ~is_bates /\ a.page_automation_var
    THEN IF Strip(a.exemplary_citation_var) # "" /\ IsDigitStr(Strip(a.exemplary_page_var))
         THEN [ok |-> TRUE, enabled |-> TRUE,
               citation |-> Strip(a.exemplary_citation_var),
               page |-> ParseInt(Strip(a.exemplary_page_var))]
         ELSE [ok |-> FALSE, enabled |-> FALSE, citation |-> "", page |-> NonePage]
    ELSE [ok |-> TRUE, enabled |-> FALSE, citation |-> "", page |-> NonePage]

\* process_word_document up to linker.process_document (lines 4592-4646); the
\* document is processed as one region
ProcessWordDocument ==
    /\ AtMainloop
    /\ app.processing_mode = "word"
    /\ word.doc /\ word.target_folder # None
    /\ app.word_submode_var = "bates" => Strip(app.bates_prefix_var) # ""
    /\ LET Configure(w, args) ==
               IF args.ok
               THEN /\ word' = set_page_automation(w, args.enabled, args.citation,
                                                   args.page)
                    /\ scan' = ScanStart
                    /\ app' = [app EXCEPT !.runs = @ + 1]
               ELSE /\ word' = w
                    /\ UNCHANGED <<scan, app>>
       IN Configure(IF app.word_submode_var = "bates"
                    THEN set_bates_mode(word, TRUE, Strip(app.bates_prefix_var), fs)
                    ELSE set_bates_mode(word, FALSE, "", fs),
                    PageAutomationArgs(app, app.word_submode_var = "bates"))
    /\ UNCHANGED <<fs, excel, range_text, hyperlinks, call>>

\* process_excel_document up to its root.update() (lines 4692-4741)
ProcessExcelDocument ==
    /\ AtMainloop
    /\ app.processing_mode = "excel"
    /\ excel.excel_file_path # None /\ excel.target_folder # None
    /\ excel.selected_column_index # 0
    /\ app.excel_submode_var = "bates" => Strip(app.bates_prefix_var) # ""
    /\ LET Configure(x, args) ==
               IF args.ok
               THEN /\ excel' = set_page_automation(x, args.enabled, args.citation,
                                                    args.page)
                    /\ app' = [app EXCEPT !.pc = "process_excel_document",
                                          !.runs = @ + 1]
               ELSE /\ excel' = x
                    /\ UNCHANGED app
       IN Configure(IF app.excel_submode_var = "bates"
                    THEN set_mode(excel, "bates", Strip(app.bates_prefix_var), fs)
                    ELSE set_mode(excel, "exhibit", "", fs),
                    PageAutomationArgs(app, app.excel_submode_var = "bates"))
    /\ UNCHANGED <<fs, word, range_text, hyperlinks, scan, call>>

\* the rows of the column in which process_excel_column looks a Bates number up
BatesLookups(x) ==
    {k \in DOMAIN x.cells :
        /\ x.mode = "bates" /\ x.target_folder # None /\ x.bates_prefix # ""
        /\ x.cells[k].value # None
        /\ StrLower(Strip(x.cells[k].value)) \notin EmptyTexts
        /\ Search(get_bates_patterns(x.bates_prefix)[1],
                  DropFloatSuffix(Strip(x.cells[k].value))).found}

\* process_excel_document from linker.process_excel_column on (line 4744)
ProcessExcelColumn ==
    /\ app.pc = "process_excel_document"
    /\ \E outcomes \in [DOMAIN excel.cells -> CellOutcomes] :
         LET Store(r) ==
                 /\ excel' = [excel EXCEPT !.cells = r.cells]
                 /\ call' = [op |-> "process_excel_column",
                             links_added |-> r.links_added,
                             lookups |-> BatesLookups(excel)]
         IN Store(process_excel_column(excel, outcomes, fs))
    /\ app' = [app EXCEPT !.pc = "mainloop"]
    /\ UNCHANGED <<fs, word, range_text, hyperlinks, scan>>

NextConfig ==
    \/ SetProcessingMode \/ SetWordSubmode \/ SetExcelSubmode \/ SetBatesPrefix
    \/ BrowseWordDocument \/ SelectWordDocument \/ BrowseExcelFile \/ SelectExcelColumn
    \/ BrowseFolder \/ UseDocumentFolder
    \/ ProcessWordDocument \/ StartRange \/ ProcessReference \/ ReturnRange
    \/ ProcessExcelDocument \/ ProcessExcelColumn

SpecConfig == InitConfig /\ [][NextConfig]_vars

(***************************************************************************)
(* SpecRoundTrip: a pattern synthesized from an exemplar of the shape      *)
(* "Ex. <id>, <words>, at p. <n>" and run on the exemplar and on another   *)
(* citation of the same shape                                              *)
(***************************************************************************)
ShapeIds == {"5", "7", "12A", "B"}
ShapeWords == {"Memo", "Note at p"}
ShapePages == {3, 25, 99}

Shapes == [id : ShapeIds, words : ShapeWords, page : ShapePages]

\* the citation of a shape
Shaped(c) == "Ex. " \o c.id \o ", " \o c.words \o ", at p. " \o IntToStr(c.page)

InitRoundTrip ==
    /\ fs = [f \in Folders |-> <<>>]
    /\ word = WordInit
    /\ excel = ExcelInit
    /\ app = AppInit
    /\ range_text = ""
    /\ hyperlinks = <<>>
    /\ scan = ScanIdle
    /\ \E exemplar \in Shapes, other \in Shapes :
         /\ exemplar.id # other.id
         /\ call = [op |-> "round_trip", pc |-> "synthesize",
                    exemplar |-> exemplar, other |-> other,
                    on_exemplar |-> <<>>, on_other |-> <<>>]

\* set_page_automation(True, exemplar, page) on the Word linker
Synthesize ==
    /\ call.op = "round_trip" /\ call.pc = "synthesize"
    /\ word' = set_page_automation(word, TRUE, Shaped(call.exemplar), call.exemplar.page)
    /\ call' = [call EXCEPT !.pc = "exemplar"]
    /\ UNCHANGED <<fs, excel, app, range_text, hyperlinks, scan>>

\* find_page_number_in_text on the exemplar itself
FindOnExemplar ==
    /\ call.op = "round_trip" /\ call.pc = "exemplar"
    /\ call' = [call EXCEPT
                  !.pc = "other",
                  !.on_exemplar = find_page_number_in_text(word, Shaped(call.exemplar))]
    /\ UNCHANGED <<fs, word, excel, app, range_text, hyperlinks, scan>>

\* find_page_number_in_text on the other citation
FindOnOther ==
    /\ call.op = "round_trip" /\ call.pc = "other"
    /\ call' = [call EXCEPT
                  !.pc = "done",
                  !.on_other = find_page_number_in_text(word, Shaped(call.other))]
    /\ UNCHANGED <<fs, word, excel, app, range_text, hyperlinks, scan>>

NextRoundTrip == Synthesize \/ FindOnExemplar \/ FindOnOther

SpecRoundTrip == InitRoundTrip /\ [][NextRoundTrip]_vars

(***************************************************************************)
(* SpecDrift: one region whose live text is edited between the snapshot of *)
(* its text (line 795) and the turn of the loop that re-reads it (line     *)
(* 849): the citation then lies k characters from its recorded span        *)
(***************************************************************************)
MaxDrift == 7

DriftFiller == "abcdefg"
DriftPadding == "xxxxxxxxxxxx"
DriftCitations == {"Ex. 3", "Ex. 3A"}
DriftTails == {"", " and so on"}
DriftFolder == <<"Ex. 3.pdf", "Ex. 3A.pdf">>

\* k characters put in front of the citation (k > 0) or taken away (k < 0)
Drifted(citation, tail, k) ==
    (IF k >= 0
     THEN DriftFiller \o SubSeq(DriftPadding, 1, k)
     ELSE SubSeq(DriftFiller, 1, Len(DriftFiller) + k))
        \o citation \o tail

InitDrift ==
    /\ fs = [f \in Folders |-> IF f = "F1" THEN DriftFolder ELSE <<>>]
    /\ word = WordOpened
    /\ excel = ExcelInit
    /\ app = AppInit
    /\ hyperlinks = <<>>
    /\ scan = ScanStart
    /\ \E citation \in DriftCitations, tail \in DriftTails :
         /\ range_text = Drifted(citation, tail, 0)
         /\ call = [op |-> "drift", done |-> FALSE, k |-> 0,
                    citation |-> citation, tail |-> tail, live |-> range_text]

\* the document is edited in front of the citation before the loop reads it
Drift ==
    /\ call.op = "drift" /\ ~call.done
    /\ scan.pc = "loop" /\ scan.i = 1
    /\ \E k \in ((0 - MaxDrift)..MaxDrift) \ {0} :
         /\ k >= 0 - Len(DriftFiller)
         /\ range_text' = Drifted(call.citation, call.tail, k)
         /\ call' = [call EXCEPT !.done = TRUE, !.k = k, !.live = range_text']
    /\ UNCHANGED <<fs, word, excel, app, hyperlinks, scan>>

NextDrift == StartRange \/ Drift \/ ProcessReference \/ ReturnRange

SpecDrift == InitDrift /\ [][NextDrift]_vars

(***************************************************************************)
(* SpecScan: WordAutoLinkerCOM.process_document on a drawn document.  The  *)
(* three loops read their regions one at a time; each region readable      *)
(* without a fault goes through process_range_for_hyperlinks step by step  *)
(* (StartRange, ProcessReference, ReturnRange).  call is the frame of      *)
(* process_document: its position, loop index, and running totals.         *)
(***************************************************************************)
MaxParagraphs == 2
MaxNotes == 1

Sections == <<"paragraphs", "footnotes", "endnotes">>

\* a region of the document: its text and what the host does when it is read:
\* "none"; "unreadable", range_obj.Text raises (lines 794-798); "raises", the
\* region cannot be fetched or its extraction raises (the except clauses of
\* lines 1158, 1188, 1221)
Region(text, fault) == [text |-> text, fault |-> fault]
ScanRegions ==
    {Region("Ex. 3", "none"), Region("No citation.", "none"),
     Region("Ex. 3", "unreadable"), Region("Ex. 3", "raises")}
ScanFolder == <<"Ex. 3.pdf">>

\* what fails outside the regions: "paragraphs" (Paragraphs.Count raises),
\* "folder" (os.listdir raises), "footnotes" and "endnotes" (the collection
\* cannot be reached)
ScanFaults == {"none", "paragraphs", "folder", "footnotes", "endnotes"}

SeqsUpTo(S, n) == UNION {[1..k -> S] : k \in 0..n}

ScanFrame(doc, fault) ==
    [op |-> "process_document", pc |-> "begin", section |-> "paragraphs", i |-> 0,
     total_links_added |-> 0, processed_items |-> 0,
     doc |-> doc, fault |-> fault,
     visited |-> <<>>, contributions |-> <<>>, result |-> 0]

InitScan ==
    /\ fs = [f \in Folders |-> IF f = "F1" THEN ScanFolder ELSE <<>>]
    /\ word = WordOpened
    /\ excel = ExcelInit
    /\ app = AppInit
    /\ range_text = ""
    /\ hyperlinks = <<>>
    /\ scan = ScanIdle
    /\ \E paragraphs \in SeqsUpTo(ScanRegions, MaxParagraphs) \ {<<>>},
          footnotes \in SeqsUpTo(ScanRegions, MaxNotes),
          endnotes \in SeqsUpTo(ScanRegions, MaxNotes),
          fault \in ScanFaults :
         call = ScanFrame([paragraphs |-> paragraphs, footnotes |-> footnotes,
                           endnotes |-> endnotes], fault)

\* lines 1083-1136: the guard, the paragraph count, the folder listing
BeginScan ==
    /\ call.op = "process_document" /\ call.pc = "begin"
    /\ call' = IF ~word.doc \/ word.target_folder = None
                  \/ call.fault \in {"paragraphs", "folder"}
               THEN [call EXCEPT !.pc = "returned", !.result = 0]
               ELSE [call EXCEPT !.pc = "paragraphs", !.section = "paragraphs", !.i = 1]
    /\ UNCHANGED <<fs, word, excel, app, range_text, hyperlinks, scan>>

\* the regions the loop of a section runs over: none when the collection of the
\* section cannot be reached (lines 1171-1172 and 1196, 1204-1205 and 1229)
SectionRegions(frame, section) ==
    IF frame.fault = section THEN <<>> ELSE frame.doc[section]

\* mutant: a region that raises ends the loop of its section
EnterRegion_FaultEndsSection ==
    /\ call.op = "process_document" /\ call.pc \in Range(Sections)
    /\ call.i <= Len(SectionRegions(call, call.pc))
    /\ LET Enter(region, frame) ==
               IF region.fault = "raises"
               THEN /\ call' = [frame EXCEPT
                                  !.processed_items = @ + 1,
                                  !.contributions = Append(@, 0),
                                  !.i = Len(SectionRegions(call, call.pc)) + 1]
                    /\ UNCHANGED <<range_text, scan>>
               ELSE IF region.fault = "unreadable"
               THEN /\ call' = [frame EXCEPT
                                  !.processed_items = @ + 1,
                                  !.contributions = Append(@, 0),
                                  !.i = @ + 1]
                    /\ UNCHANGED <<range_text, scan>>
               ELSE /\ call' = [frame EXCEPT !.pc = "in_region", !.section = call.pc]
                    /\ range_text' = region.text
                    /\ scan' = ScanStart
       IN Enter(call.doc[call.pc][call.i],
                [call EXCEPT !.visited = Append(@, <<call.pc, call.i>>)])
    /\ UNCHANGED <<fs, word, excel, app, hyperlinks>>

\* mutant: the exception of a region leaves process_document
EnterRegion_Raises ==
    /\ call.op = "process_document" /\ call.pc \in Range(Sections)
    /\ call.i <= Len(SectionRegions(call, call.pc))
    /\ LET Enter(region, frame) ==
               IF region.fault = "raises"
               THEN /\ call' = [frame EXCEPT !.pc = "raised"]
                    /\ UNCHANGED <<range_text, scan>>
               ELSE IF region.fault = "unreadable"
               THEN /\ call' = [frame EXCEPT
                                  !.processed_items = @ + 1,
                                  !.contributions = Append(@, 0),
                                  !.i = @ + 1]
                    /\ UNCHANGED <<range_text, scan>>
               ELSE /\ call' = [frame EXCEPT !.pc = "in_region", !.section = call.pc]
                    /\ range_text' = region.text
                    /\ scan' = ScanStart
       IN Enter(call.doc[call.pc][call.i],
                [call EXCEPT !.visited = Append(@, <<call.pc, call.i>>)])
    /\ UNCHANGED <<fs, word, excel, app, hyperlinks>>

\* one turn of a loop up to the call of process_range_for_hyperlinks (lines
\* 1140-1147, 1176-1183, 1209-1216).  A region that raises goes to the except
\* clause of the turn; an unreadable one makes process_range_for_hyperlinks
\* return 0; both end the turn with nothing added.
EnterRegion ==
    /\ call.op = "process_document" /\ call.pc \in Range(Sections)
    /\ call.i <= Len(SectionRegions(call, call.pc))
    /\ LET Enter(region, frame) ==
               IF region.fault \in {"raises", "unreadable"}
               THEN /\ call' = [frame EXCEPT
                                  !.processed_items = @ + 1,
                                  !.contributions = Append(@, 0),
                                  !.i = @ + 1]
                    /\ UNCHANGED <<range_text, scan>>
               ELSE /\ call' = [frame EXCEPT !.pc = "in_region", !.section = call.pc]
                    /\ range_text' = region.text
                    /\ scan' = ScanStart
       IN Enter(call.doc[call.pc][call.i],
                [call EXCEPT !.visited = Append(@, <<call.pc, call.i>>)])
    /\ UNCHANGED <<fs, word, excel, app, hyperlinks>>

\* the rest of the turn, once process_range_for_hyperlinks has returned (lines
\* 1148-1149, 1184-1185, 1217-1218); the region keeps the text it now has
LeaveRegion ==
    /\ call.op = "process_document" /\ call.pc = "in_region"
    /\ scan.pc = "done"
    /\ call' = [call EXCEPT
                  !.pc = call.section,
                  !.total_links_added = @ + scan.result,
                  !.processed_items = @ + 1,
                  !.contributions = Append(@, scan.result),
                  !.doc[call.section][call.i].text = range_text,
                  !.i = @ + 1]
    /\ scan' = ScanIdle
    /\ UNCHANGED <<fs, word, excel, app, range_text, hyperlinks>>

\* mutant: the endnotes are walked before the footnotes
EndSection_EndnotesFirst ==
    /\ call.op = "process_document" /\ call.pc \in Range(Sections)
    /\ call.i > Len(SectionRegions(call, call.pc))
    /\ call' = CASE call.pc = "paragraphs" -> [call EXCEPT !.pc = "endnotes", !.i = 1]
                 [] call.pc = "endnotes" -> [call EXCEPT !.pc = "footnotes", !.i = 1]
                 [] call.pc = "footnotes" ->
                      [call EXCEPT !.pc = "returned", !.result = call.total_links_added]
    /\ UNCHANGED <<fs, word, excel, app, range_text, hyperlinks, scan>>

\* a loop is over: the footnotes follow the paragraphs, the endnotes the
\* footnotes, and line 1247 returns total_links_added (doc.Save, when it
\* raises, is caught at line 1244)
EndSection ==
    /\ call.op = "process_document" /\ call.pc \in Range(Sections)
    /\ call.i > Len(SectionRegions(call, call.pc))
    /\ call' = CASE call.pc = "paragraphs" -> [call EXCEPT !.pc = "footnotes", !.i = 1]
                 [] call.pc = "footnotes" -> [call EXCEPT !.pc = "endnotes", !.i = 1]
                 [] call.pc = "endnotes" ->
                      [call EXCEPT !.pc = "returned", !.result = call.total_links_added]
    /\ UNCHANGED <<fs, word, excel, app, range_text, hyperlinks, scan>>

NextScan ==
    \/ BeginScan \/ EnterRegion \/ LeaveRegion \/ EndSection
    \/ StartRange \/ ProcessReference \/ ReturnRange

SpecScan == InitScan /\ [][NextScan]_vars

\* Every step of process_document and of process_range_for_hyperlinks is a step
\* of one thread of the interpreter: a step that can be taken is taken.
\* process_document runs in one thread that nothing suspends: the step it is at
\* is taken.  A step of a region (StartRange, ProcessReference) can be taken
\* exactly when RangeBusy holds, so its weak fairness is written with RangeBusy
\* in the place of ENABLED <<StartRange \/ ProcessReference>>_vars.
RangeBusy ==
    \/ scan.pc = "start"
    \/ scan.pc = "loop" /\ scan.i <= Len(scan.references)

SpecScanFair ==
    /\ SpecScan
    /\ WF_vars(BeginScan \/ EnterRegion \/ LeaveRegion \/ EndSection \/ ReturnRange)
    /\ ([]<>~RangeBusy \/ []<><<StartRange \/ ProcessReference>>_vars)

(***************************************************************************)
(* SpecExtract: one region of a Word document in exhibit mode whose        *)
(* citations are written in the surface forms of exhibit_patterns and in   *)
(* other letter cases                                                      *)
(***************************************************************************)
SurfacePieces == {"Ex. 3", "Ex 3", "Ex_3", "EXHIBIT 3", "ex. 3", " and "}
SurfaceFolder == <<"Ex. 3.pdf">>

InitExtract ==
    /\ excel = ExcelInit
    /\ app = AppInit
    /\ call = CallIdle
    /\ hyperlinks = <<>>
    /\ scan = ScanStart
    /\ fs = [f \in Folders |-> IF f = "F1" THEN SurfaceFolder ELSE <<>>]
    /\ word = WordOpened
    /\ range_text \in Texts(SurfacePieces, MaxPieces)

NextExtract == StartRange \/ ProcessReference \/ ReturnRange

SpecExtract == InitExtract /\ [][NextExtract]_vars

(***************************************************************************)
(* SpecCells: a column of two cells that hold the same whole number, the   *)
(* first as a float and the second as text, in Excel exhibit mode          *)
(***************************************************************************)
\* the whole numbers drawn, as decimal digits; the two of 17 digits are floats
\* that str() prints with an exponent
CellNumbers == {"0", "7", "10", "100", "1000000000000000",
                "10000000000000000", "20000000000000000"}
CellFiles == {"Ex. 7.pdf", "Ex. 10.pdf", "Exhibit 100.pdf",
              "Ex. 10000000000000000.pdf"}

RECURSIVE DropTrailingZeros(_)
DropTrailingZeros(digits) ==
    IF digits # "" /\ SubSeq(digits, Len(digits), Len(digits)) = "0"
    THEN DropTrailingZeros(SubSeq(digits, 1, Len(digits) - 1))
    ELSE digits

\* str(cell_value) of line 2850 for a float that holds the whole number with
\* these digits: "10.0" below 1e16, and from 1e16 on the shortest digits with
\* an exponent ("1e+16", "1.2e+17")
FloatStr(digits) ==
    IF Len(digits) <= 16 THEN digits \o ".0"
    ELSE LET Sci(mantissa) ==
                 SubSeq(mantissa, 1, 1)
                     \o (IF Len(mantissa) > 1
                         THEN "." \o SubSeq(mantissa, 2, Len(mantissa)) ELSE "")
                     \o "e+" \o IntToStr(Len(digits) - 1)
         IN Sci(DropTrailingZeros(digits))

\* lines 2838-3059 for a cell that holds a float: ProcessCell on its str(), and
\* display_text = str(int(cell_value)) (lines 2870-2872) where the cell is written
ProcessFloatCell(x, digits, link, outcome, fsys) ==
    LET Shown(row) ==
            IF row.cell.value = FloatStr(digits) THEN row
            ELSE [row EXCEPT !.cell.value = digits]
    IN Shown(ProcessCell(x, [value |-> FloatStr(digits), link |-> link], outcome, fsys))

CellsLinker ==
    [ExcelInit EXCEPT !.target_folder = "F1", !.worksheet = TRUE,
                      !.selected_column_index = 1]

InitCells ==
    /\ word = WordInit
    /\ app = AppInit
    /\ range_text = ""
    /\ hyperlinks = <<>>
    /\ scan = ScanIdle
    /\ \E listing \in Listings(CellFiles, MaxFiles) :
          fs = [f \in Folders |-> IF f = "F1" THEN listing ELSE <<>>]
    /\ \E digits \in CellNumbers :
          /\ excel = [CellsLinker EXCEPT
                         !.cells = <<Cell(FloatStr(digits)), Cell(digits)>>]
          /\ call = [op |-> "process_excel_column", row |-> 1, digits |-> digits,
                     files |-> <<>>, linked |-> <<>>]

\* the row of the float cell
ProcessFloatRow ==
    /\ call.op = "process_excel_column" /\ call.row = 1
    /\ \E outcome \in CellOutcomes :
         LET Step(cell_text, row) ==
                 /\ excel' = [excel EXCEPT !.cells[1] = row.cell]
                 /\ call' = [call EXCEPT
                               !.row = 2,
                               !.files = Append(@, Excel_find_matching_files(
                                                       excel, cell_text, fs)),
                               !.linked = Append(@, row.linked)]
         IN Step(DropFloatSuffix(Strip(FloatStr(call.digits))),
                 ProcessFloatCell(excel, call.digits, excel.cells[1].link, outcome, fs))
    /\ UNCHANGED <<fs, word, app, range_text, hyperlinks, scan>>

\* the row of the text cell
ProcessTextRow ==
    /\ call.op = "process_excel_column" /\ call.row = 2
    /\ \E outcome \in CellOutcomes :
         LET Step(cell_text, row) ==
                 /\ excel' = [excel EXCEPT !.cells[2] = row.cell]
                 /\ call' = [call EXCEPT
                               !.row = 3,
                               !.files = Append(@, Excel_find_matching_files(
                                                       excel, cell_text, fs)),
                               !.linked = Append(@, row.linked)]
         IN Step(DropFloatSuffix(Strip(excel.cells[2].value)),
                 ProcessCell(excel, excel.cells[2], outcome, fs))
    /\ UNCHANGED <<fs, word, app, range_text, hyperlinks, scan>>

NextCells == ProcessFloatRow \/ ProcessTextRow

SpecCells == InitCells /\ [][NextCells]_vars

(***************************************************************************)
(* FileRenamer: normalize_filename and rename_files_in_folder              *)
(***************************************************************************)
\* re.sub(r, repl, txt) where repl is "_" or r"\1_"
ReSub(r, txt, keeps_group) ==
    LET RECURSIVE Build(_, _, _)
        Build(matches, k, from) ==
            IF k > Len(matches) THEN Slice(txt, from, Len(txt))
            ELSE Slice(txt, from, matches[k].start)
                    \o (IF keeps_group THEN Group(matches[k], txt, 1) ELSE "")
                    \o "_"
                    \o Build(matches, k + 1, matches[k].end)
    IN Build(FindIter(r, txt), 1, 0)

\* os.path.splitext: the extension starts at the last dot, unless only dots
\* come before it
splitext(filename) ==
    LET dots == {i \in 1..Len(filename) : SubSeq(filename, i, i) = "."}
        Split(last) ==
            IF \A i \in 1..(last - 1) : SubSeq(filename, i, i) = "."
            THEN <<filename, "">>
            ELSE <<SubSeq(filename, 1, last - 1), SubSeq(filename, last, Len(filename))>>
    IN IF dots = {} THEN <<filename, "">>
       ELSE Split(CHOOSE i \in dots : \A j \in dots : j <= i)

RECURSIVE RStripUnderscores(_)
\* normalized.rstrip('_')
RStripUnderscores(s) ==
    IF s # "" /\ SubSeq(s, Len(s), Len(s)) = "_"
    THEN RStripUnderscores(SubSeq(s, 1, Len(s) - 1))
    ELSE s

\* lines 1910-1912: the names that look like exhibits
LooksLikeExhibit(name) ==
    \/ StartsWith(StrLower(name), "ex.")
    \/ StartsWith(StrLower(name), "ex ")
    \/ StartsWith(StrLower(name), "exhibit")
    \/ MatchAt(RCat(<<RBol, RLit("ex"), RSet({".", "_"} \cup Space)>>),
               StrLower(name), 0).found

\* FileRenamer.normalize_filename
normalize_filename(filename) ==
    LET Normalize(name, ext) ==
            IF ~LooksLikeExhibit(name) THEN filename
            ELSE LET step1 == ReSub(RCat(<<RBol, RGrp(1, RLit("Ex")), RLit("."),
                                           RStar(RSet(Space))>>), name, TRUE)
                     step2 == ReSub(RCat(<<RBol, RGrp(1, RLit("Ex")),
                                           RPlus(RSet(Space))>>), step1, TRUE)
                     step3 == ReSub(RCat(<<RBol, RGrp(1, RLit("Exhibit")),
                                           RPlus(RSet(Space))>>), step2, TRUE)
                     step4 == ReSub(RPlus(RSet(Space)), step3, FALSE)
                     step5 == ReSub(RRep(RLit("_"), 2, -1, TRUE), step4, FALSE)
                 IN RStripUnderscores(step5) \o ext
    IN Normalize(splitext(filename)[1], splitext(filename)[2])

RenameReport(successful, failed, unchanged, folder) ==
    [successful_renames |-> successful, failed_renames |-> failed,
     unchanged_files |-> unchanged, folder |-> folder]

\* lines 1983-2014: the loop over the listing read at line 1972; os.path.exists
\* reads the folder as it is at that turn, and os.rename, reached only where
\* the target does not exist, succeeds.  The folder holds files only.
RECURSIVE RenameLoop(_, _, _, _)
RenameLoop(files, k, dry_run, report) ==
    IF k > Len(files) THEN report
    ELSE LET Turn(filename, new_filename) ==
                 IF new_filename = filename
                 THEN [report EXCEPT !.unchanged_files = Append(@, filename)]
                 ELSE IF \E i \in 1..Len(report.folder) : report.folder[i] = new_filename
                 THEN [report EXCEPT !.failed_renames =
                          Append(@, <<filename, new_filename,
                                      "Target file already exists: " \o new_filename>>)]
                 ELSE IF dry_run
                 THEN [report EXCEPT
                          !.successful_renames = Append(@, <<filename, new_filename>>)]
                 ELSE [report EXCEPT
                          !.successful_renames = Append(@, <<filename, new_filename>>),
                          !.folder = [i \in 1..Len(@) |->
                                         IF @[i] = filename THEN new_filename ELSE @[i]]]
         IN RenameLoop(files, k + 1, dry_run,
                       Turn(files[k], normalize_filename(files[k])))

\* FileRenamer.rename_files_in_folder on a folder that exists
rename_files_in_folder(folder_path, dry_run, fsys) ==
    RenameLoop(fsys[folder_path], 1, dry_run,
               RenameReport(<<>>, <<>>, <<>>, fsys[folder_path]))

(***************************************************************************)
(* SpecRename: a dry run and then a real run on the same folder            *)
(***************************************************************************)
MaxRenameFiles == 3
RenameFiles == {"Ex. 1.pdf", "Ex 1.pdf", "Ex_1.pdf", "Exhibit  2 Memo.pdf",
                "ex.3 _.PDF", "notes 4.txt"}

InitRename ==
    /\ word = WordInit
    /\ excel = ExcelInit
    /\ app = AppInit
    /\ range_text = ""
    /\ hyperlinks = <<>>
    /\ scan = ScanIdle
    /\ \E listing \in Listings(RenameFiles, MaxRenameFiles) :
          /\ fs = [f \in Folders |-> IF f = "F1" THEN listing ELSE <<>>]
          /\ call = [op |-> "rename_files_in_folder", pc |-> "dry",
                     before |-> listing,
                     dry |-> RenameReport(<<>>, <<>>, <<>>, listing),
                     real |-> RenameReport(<<>>, <<>>, <<>>, listing)]

\* rename_files_in_folder(folder, dry_run=True)
DryRun ==
    /\ call.op = "rename_files_in_folder" /\ call.pc = "dry"
    /\ call' = [call EXCEPT !.pc = "real",
                            !.dry = rename_files_in_folder("F1", TRUE, fs)]
    /\ fs' = [fs EXCEPT !["F1"] = rename_files_in_folder("F1", TRUE, fs).folder]
    /\ UNCHANGED <<word, excel, app, range_text, hyperlinks, scan>>

\* rename_files_in_folder(folder, dry_run=False)
RealRun ==
    /\ call.op = "rename_files_in_folder" /\ call.pc = "real"
    /\ call' = [call EXCEPT !.pc = "done",
                            !.real = rename_files_in_folder("F1", FALSE, fs)]
    /\ fs' = [fs EXCEPT !["F1"] = rename_files_in_folder("F1", FALSE, fs).folder]
    /\ UNCHANGED <<word, excel, app, range_text, hyperlinks, scan>>

NextRename == DryRun \/ RealRun

SpecRename == InitRename /\ [][NextRename]_vars

(***************************************************************************)
(* SpecBoundary: one region with page automation whose text holds two      *)
(* exhibit references before a page reference                              *)
(***************************************************************************)
BoundaryPieces == {"Ex. 5 and ", "Exhibit 7", "Ex. 7", " at p. 9"}
BoundaryFolder == <<"Ex. 5.pdf", "Ex. 7.pdf">>
BoundaryExemplar == [citation |-> "Ex. 3 at p. 12", page |-> 12]

InitBoundary ==
    /\ excel = ExcelInit
    /\ app = AppInit
    /\ call = CallIdle
    /\ hyperlinks = <<>>
    /\ scan = ScanStart
    /\ fs = [f \in Folders |-> IF f = "F1" THEN BoundaryFolder ELSE <<>>]
    /\ word = set_page_automation(WordOpened, TRUE, BoundaryExemplar.citation,
                                  BoundaryExemplar.page)
    /\ range_text \in Texts(BoundaryPieces, MaxPieces)

NextBoundary == StartRange \/ ProcessReference \/ ReturnRange

SpecBoundary == InitBoundary /\ [][NextBoundary]_vars

(***************************************************************************)
(* WordAutoLinkerCOM.initialize_word, restore_word_settings and cleanup:   *)
(* the settings of the Word host over one session                          *)
(***************************************************************************)
\* the settings initialize_word saves, in the order of lines 369-415
SavedSettings ==
    <<"CheckGrammarAsYouType", "CheckSpellingAsYouType", "SuggestSpellingCorrections",
      "AutoFormatAsYouTypeApplyHeadings", "AutoFormatAsYouTypeApplyBulletedLists",
      "AutoFormatAsYouTypeApplyNumberedLists", "ScreenUpdating", "EnableEvents">>

\* the three try blocks of lines 426-449, each setting its names to False in
\* this order
AlterBlocks ==
    << <<"ScreenUpdating", "EnableEvents">>,
       <<"CheckGrammarAsYouType", "CheckSpellingAsYouType", "SuggestSpellingCorrections">>,
       <<"AutoFormatAsYouTypeApplyHeadings", "AutoFormatAsYouTypeApplyBulletedLists",
         "AutoFormatAsYouTypeApplyNumberedLists">> >>

\* The one host call of the session that raises, if any: the read of a setting
\* while saving, the write of a setting while altering, Documents.Count at line
\* 452, or the write of a setting while restoring.
HostFaults ==
    {[at |-> "none", name |-> ""], [at |-> "count", name |-> ""]}
        \cup {[at |-> a, name |-> SavedSettings[k]] :
                 a \in {"save", "alter", "restore"}, k \in 1..Len(SavedSettings)}

\* the hosts drawn: every setting on, every setting off, or one setting on
HostSettings ==
    {[s \in Range(SavedSettings) |-> TRUE], [s \in Range(SavedSettings) |-> FALSE]}
        \cup {[s \in Range(SavedSettings) |-> s = on] : on \in Range(SavedSettings)}

\* lines 362-420: original_word_settings, without the settings whose read raised
SaveSettings(host, fault) ==
    [s \in {n \in Range(SavedSettings) : ~(fault.at = "save" /\ fault.name = n)}
        |-> host[s]]

RECURSIVE AlterBlock(_, _, _, _)
\* one try block of lines 426-449 from its k-th assignment: a write that
\* raises ends the block
AlterBlock(names, k, sess, fault) ==
    IF k > Len(names) THEN sess
    ELSE IF fault.at = "alter" /\ fault.name = names[k] THEN sess
    ELSE AlterBlock(names, k + 1,
                    [sess EXCEPT !.host[names[k]] = FALSE,
                                 !.altered = @ \cup {names[k]}],
                    fault)

RECURSIVE AlterSettings(_, _, _)
AlterSettings(b, sess, fault) ==
    IF b > Len(AlterBlocks) THEN sess
    ELSE AlterSettings(b + 1, AlterBlock(AlterBlocks[b], 1, sess, fault), fault)

\* WordAutoLinkerCOM.initialize_word on a linker without a Word application:
\* dispatch, save, alter, test.  When the test of line 452 raises, the except
\* clause of line 457 drops word_app and raises.
initialize_word(sess, fault) ==
    LET Test(altered) ==
            IF fault.at = "count"
            THEN [altered EXCEPT !.word_app = FALSE, !.pc = "failed"]
            ELSE [altered EXCEPT !.pc = "ready"]
    IN Test(AlterSettings(1, [sess EXCEPT
                                 !.word_app = TRUE,
                                 !.original_word_settings = SaveSettings(sess.host, fault)],
                          fault))

\* WordAutoLinkerCOM.restore_word_settings: every saved setting is written back,
\* each in its own try
restore_word_settings(sess, fault) ==
    IF ~sess.word_app THEN sess
    ELSE IF DOMAIN sess.original_word_settings = {} THEN sess
    ELSE [sess EXCEPT !.host =
            [s \in DOMAIN @ |->
                IF s \in DOMAIN sess.original_word_settings
                   /\ ~(fault.at = "restore" /\ fault.name = s)
                THEN sess.original_word_settings[s]
                ELSE @[s]]]

(***************************************************************************)
(* SpecSession: a linker is created, Word is initialized, the application  *)
(* is closed                                                               *)
(***************************************************************************)
InitSession ==
    /\ fs = [f \in Folders |-> <<>>]
    /\ word = WordInit
    /\ excel = ExcelInit
    /\ app = AppInit
    /\ range_text = ""
    /\ hyperlinks = <<>>
    /\ scan = ScanIdle
    /\ \E host \in HostSettings, fault \in HostFaults :
          call = [op |-> "session", pc |-> "created", fault |-> fault,
                  before |-> host, host |-> host, altered |-> {},
                  word_app |-> FALSE, original_word_settings |-> << >>]

\* select_word_document calls initialize_word (line 506)
InitializeWord ==
    /\ call.op = "session" /\ call.pc = "created"
    /\ call' = initialize_word(call, call.fault)
    /\ UNCHANGED <<fs, word, excel, app, range_text, hyperlinks, scan>>

\* on_closing calls cleanup (line 4803), which restores the settings (line
\* 1805) and quits Word
Cleanup ==
    /\ call.op = "session" /\ call.pc \in {"ready", "failed"}
    /\ call' = [restore_word_settings(call, call.fault) EXCEPT
                   !.pc = "ended", !.word_app = FALSE]
    /\ UNCHANGED <<fs, word, excel, app, range_text, hyperlinks, scan>>

NextSession == InitializeWord \/ Cleanup

SpecSession == InitSession /\ [][NextSession]_vars

(***************************************************************************)
(* SpecContext: the region of SpecDrift scanned with page automation       *)
(* enabled: the context of lines 939-942 is cut from the text read at line *)
(* 795, at the span that lines 849-877 verify against the text re-read in  *)
(* the turn                                                                *)
(***************************************************************************)
ContextTails == {" at p. 12", ", Ex. 3A"}
ContextExemplar == [citation |-> "Ex. 3 at p. 12", page |-> 12]

InitContext ==
    /\ fs = [f \in Folders |-> IF f = "F1" THEN DriftFolder ELSE <<>>]
    /\ word = set_page_automation(WordOpened, TRUE, ContextExemplar.citation,
                                  ContextExemplar.page)
    /\ excel = ExcelInit
    /\ app = AppInit
    /\ hyperlinks = <<>>
    /\ scan = ScanStart
    /\ \E citation \in DriftCitations, tail \in ContextTails :
         /\ range_text = Drifted(citation, tail, 0)
         /\ call = [op |-> "drift", done |-> FALSE, k |-> 0,
                    citation |-> citation, tail |-> tail, live |-> range_text]

NextContext == StartRange \/ Drift \/ ProcessReference \/ ReturnRange

SpecContext == InitContext /\ [][NextContext]_vars

(***************************************************************************)
(* SpecRelink: process_excel_column run again on a column that its earlier *)
(* run has written: the cells of the later run hold the links of the       *)
(* earlier one                                                             *)
(***************************************************************************)
MaxRelinks == 2

RelinkValues == {"Ex. 3", " Ex. 3 ", "Ex. 9"}
RelinkFolder == <<"Ex. 3.pdf">>

InitRelink ==
    /\ fs = [f \in Folders |-> IF f = "F1" THEN RelinkFolder ELSE <<>>]
    /\ word = WordInit
    /\ app = AppInit
    /\ range_text = ""
    /\ hyperlinks = <<>>
    /\ scan = ScanIdle
    /\ \E first \in RelinkValues, second \in RelinkValues :
          /\ excel = [CellsLinker EXCEPT !.cells = <<Cell(first), Cell(second)>>]
          /\ call = [op |-> "process_excel_column", run |-> 0,
                     before |-> excel.cells, outcomes |-> <<>>,
                     linked |-> <<>>, links_added |-> 0]

\* one run of process_excel_column over the column (lines 2787-3100)
RunColumn ==
    /\ call.op = "process_excel_column"
    /\ call.run < MaxRelinks
    /\ \E outcomes \in [DOMAIN excel.cells -> CellOutcomes] :
         LET Store(r) ==
                 /\ excel' = [excel EXCEPT !.cells = r.cells]
                 /\ call' = [call EXCEPT
                               !.run = @ + 1,
                               !.before = excel.cells,
                               !.outcomes = outcomes,
                               !.linked = [k \in DOMAIN excel.cells |->
                                             ProcessCell(excel, excel.cells[k],
                                                         outcomes[k], fs).linked],
                               !.links_added = r.links_added]
         IN Store(process_excel_column(excel, outcomes, fs))
    /\ UNCHANGED <<fs, word, app, range_text, hyperlinks, scan>>

NextRelink == RunColumn

SpecRelink == InitRelink /\ [][NextRelink]_vars

(***************************************************************************)
(* Properties of exhibit resolution (SpecResolve)                          *)
(***************************************************************************)
\* the six candidate prefixes of the specification, in its order
CanonicalPrefix(k, id) ==
    CASE k = 1 -> "Ex. " \o id
      [] k = 2 -> "Ex." \o id
      [] k = 3 -> "Ex " \o id
      [] k = 4 -> "Ex_" \o id
      [] k = 5 -> "Exhibit " \o id
      [] k = 6 -> "Exhibit_" \o id

\* f carries prefix p: it is p, or p followed by a separator
Carries(f, p) ==
    /\ Len(f) >= Len(p)
    /\ \A i \in 1..Len(p) : SubSeq(f, i, i) = SubSeq(p, i, i)
    /\ (Len(f) > Len(p) => SubSeq(f, Len(p) + 1, Len(p) + 1) \in {"_", "-", ".", " "})

\* f is p followed by a separator (the antecedent of the inclusion property)
CarriesWithSeparator(f, p) == Carries(f, p) /\ Len(f) > Len(p)

ExhibitCallDone == call.op = "find_matching_exhibit_files" /\ call.done
FolderFiles == Range(fs["F1"])

\* C4: the result is exactly the files carrying the first candidate prefix, in the
\* fixed order, that any file of the folder carries; files of two different
\* candidate prefixes are never returned together.
C4_FirstPrefixOnly ==
    ExhibitCallDone =>
        LET R == Range(call.files)
            id == call.identifier
            hit == {k \in 1..6 : \E f \in FolderFiles : Carries(f, CanonicalPrefix(k, id))}
        IN /\ (hit = {} => R = {})
           /\ (hit # {} =>
                 LET k == CHOOSE x \in hit : \A y \in hit : x <= y
                 IN R = {f \in FolderFiles : Carries(f, CanonicalPrefix(k, id))})
           /\ \A f, g \in R : \A j, k \in 1..6 :
                 (Carries(f, CanonicalPrefix(j, id)) /\ Carries(g, CanonicalPrefix(k, id)))
                     => j = k

\* C4 witness: "Ex. 3.pdf" and "Ex_3.pdf" both in the folder, only the first returned
C4_Witness ==
    /\ ExhibitCallDone
    /\ call.identifier = "3"
    /\ {"Ex. 3.pdf", "Ex_3.pdf"} \subseteq FolderFiles
    /\ Range(call.files) = {"Ex. 3.pdf"}

\* C5 as stated: every file that starts with a canonical prefix followed by a
\* separator is in the result.
C5_Original ==
    ExhibitCallDone =>
        \A f \in FolderFiles : \A k \in 1..6 :
            CarriesWithSeparator(f, CanonicalPrefix(k, call.identifier))
                => f \in Range(call.files)

\* C5 amended: such a file is in the result whenever no candidate prefix tried
\* before its own is carried by a file of the folder; and whenever such a file
\* exists the result is not empty.
C5_IncludedUnlessEarlierPrefix ==
    ExhibitCallDone =>
        \A f \in FolderFiles : \A k \in 1..6 :
            CarriesWithSeparator(f, CanonicalPrefix(k, call.identifier)) =>
                /\ call.files # <<>>
                /\ (\A j \in 1..(k - 1) : \A g \in FolderFiles :
                        ~Carries(g, CanonicalPrefix(j, call.identifier)))
                     => f \in Range(call.files)

\* C5 witness: a file of a later prefix ("Ex_3.pdf") is returned, no earlier prefix matching
C5_Witness ==
    /\ ExhibitCallDone
    /\ call.identifier = "3"
    /\ "Ex_3.pdf" \in Range(call.files)
    /\ "Ex. 3-A.pdf" \notin FolderFiles

(***************************************************************************)
(* Properties of the Bates lookup (SpecResolve)                            *)
(***************************************************************************)
BatesCallDone == call.op = "find_bates_pdf_and_page" /\ call.done

\* C7: the lookup returns the file of the largest start <= n and page n - start + 1,
\* and nothing when no start is <= n (or the index is empty).
C7_BatesLookup ==
    BatesCallDone =>
        LET idx == word.bates_pdf_map
            n == call.bates_number
            below == {k \in DOMAIN idx : k <= n}
        IN IF below = {}
           THEN call.path = None /\ call.page = NonePage
           ELSE \E k \in below :
                  /\ \A j \in below : j <= k
                  /\ call.path = idx[k].path
                  /\ call.page = n - k + 1

\* C7 witness: index {1, 51}, Bates number 75: the file starting at 51, page 25
C7_Witness ==
    /\ BatesCallDone
    /\ DOMAIN word.bates_pdf_map = {1, 51}
    /\ call.bates_number = 75
    /\ call.path = "F1/S_0051.pdf"
    /\ call.page = 25


(***************************************************************************)
(* Properties of the processing of one region (SpecRange)                  *)
(***************************************************************************)
InLoop == scan.pc = "loop"
RangeDone == scan.pc = "done"
Accepted == scan.references

\* the spans [s1,e1) and [s2,e2) have a character in common
Intersect(s1, e1, s2, e2) == s1 < e2 /\ s2 < e1

\* C1: the loop attempts the accepted citations in strictly descending order of
\* the start offset at which extraction found them, one attempt per citation in
\* the order of the sorted list, and has attempted all of them when it returns.
C1_DescendingAttempts ==
    /\ \A a, b \in 1..Len(scan.attempts) :
          a < b => scan.attempts[a].start > scan.attempts[b].start
    /\ \A k \in 1..Len(scan.attempts) :
          /\ k <= Len(Accepted)
          /\ scan.attempts[k].start = Accepted[k].found_start
    /\ \A a, b \in 1..Len(Accepted) :
          (Accepted[a].found_start > Accepted[b].found_start) => a < b
    /\ (RangeDone => Len(scan.attempts) = Len(Accepted))

\* C1 witness: "Ex. 3 and Ex. 3A" was processed, the citation at 10 before the one at 0
C1_Witness ==
    /\ RangeDone
    /\ scan.range_text = "Ex. 3 and Ex. 3A"
    /\ Len(scan.attempts) = 2
    /\ scan.attempts[1].start = 10 /\ scan.attempts[1].reference = "Ex. 3A"
    /\ scan.attempts[2].start = 0 /\ scan.attempts[2].reference = "Ex. 3"

\* C3 as stated: the accepted spans are pairwise non-overlapping.
C3_Original ==
    \A a, b \in 1..Len(Accepted) :
        a # b => ~Intersect(Accepted[a].found_start, Accepted[a].found_end,
                            Accepted[b].found_start, Accepted[b].found_end)

\* C2 as stated: before each turn of the loop the live text at the recorded
\* offsets of every citation not yet attempted is that citation's text.
C2_Original ==
    InLoop =>
        \A k \in scan.i..Len(Accepted) :
            PySlice(range_text, Accepted[k].start_pos, Accepted[k].end_pos)
                = Accepted[k].reference

\* the file name of a path built by PathJoin on the target folder
BaseName(path) == PySlice(path, Len(word.target_folder) + 1, Len(path))

RECURSIVE DropForm(_, _)
\* the identifier a citation carries: the citation without its leading form word
\* ("Exhibit", "Ex.", "Ex_", "Ex", in any case) and the white space after it
DropForm(forms, reference) ==
    IF forms = <<>> THEN reference
    ELSE IF StartsWith(StrLower(reference), Head(forms))
         THEN LStrip(PySlice(reference, Len(Head(forms)), Len(reference)))
         ELSE DropForm(Tail(forms), reference)

CitedId(reference) == DropForm(<<"exhibit", "ex.", "ex_", "ex">>, reference)

\* the file is one that may be returned for the identifier: its name is a
\* candidate prefix of the identifier, or continues it with a separator
OwnFile(reference, path) ==
    \E k \in 1..6 : Carries(BaseName(path), CanonicalPrefix(k, CitedId(reference)))

\* C6: in exhibit mode every accepted citation, and every link made, points to a
\* file whose name is a candidate prefix of the cited identifier or continues it
\* with one of '_', '-', '.', space, so "Ex. 3" is never paired with "Ex. 3A.pdf";
\* and the text "See Ex. 3 and Ex. 3A for details." with both files in the folder
\* gives two accepted citations on disjoint spans, each with its own file.
C6_NoCrossMatch ==
    ~word.bates_mode =>
        /\ \A k \in 1..Len(Accepted) :
              /\ OwnFile(Accepted[k].reference, Accepted[k].file_info.path)
              /\ ~(CitedId(Accepted[k].reference) = "3"
                     /\ BaseName(Accepted[k].file_info.path) = "Ex. 3A.pdf")
        /\ \A k \in 1..Len(hyperlinks) :
              /\ OwnFile(hyperlinks[k].display, hyperlinks[k].path)
              /\ ~(CitedId(hyperlinks[k].display) = "3"
                     /\ BaseName(hyperlinks[k].path) = "Ex. 3A.pdf")
        /\ (/\ scan.pc \in {"loop", "done"}
            /\ scan.range_text \in ScenarioTexts
            /\ {"Ex. 3.pdf", "Ex. 3A.pdf"} \subseteq Range(fs["F1"]))
              => /\ Len(Accepted) = 2
                 /\ Accepted[1].reference = "Ex. 3A"
                 /\ Accepted[1].file_info.path = "F1/Ex. 3A.pdf"
                 /\ Accepted[1].found_start = 14 /\ Accepted[1].found_end = 20
                 /\ Accepted[2].reference = "Ex. 3"
                 /\ Accepted[2].file_info.path = "F1/Ex. 3.pdf"
                 /\ Accepted[2].found_start = 4 /\ Accepted[2].found_end = 9

\* C6 witness: the scenario text processed with "Ex. 3A.pdf" listed first: two
\* links, "Ex. 3A" to "Ex. 3A.pdf" and "Ex. 3" to "Ex. 3.pdf"
C6_Witness ==
    /\ RangeDone
    /\ scan.range_text \in ScenarioTexts
    /\ fs["F1"] = <<"Ex. 3A.pdf", "Ex. 3.pdf">>
    /\ scan.result = 2
    /\ Len(hyperlinks) = 2
    /\ hyperlinks[1].display = "Ex. 3A" /\ hyperlinks[1].path = "F1/Ex. 3A.pdf"
    /\ hyperlinks[1].anchor_start = 14
    /\ hyperlinks[2].display = "Ex. 3" /\ hyperlinks[2].path = "F1/Ex. 3.pdf"
    /\ hyperlinks[2].anchor_start = 4

\* C8: every link target built with a page fragment, from the Bates lookup or
\* from page automation, has a page >= 1, and so has every link that keeps its
\* page; an accepted Bates citation carries a page >= 1.
C8_PagedAtLeastOne ==
    /\ \A k \in 1..Len(hyperlinks) :
          /\ hyperlinks[k].fragment_page # NonePage => hyperlinks[k].fragment_page >= 1
          /\ hyperlinks[k].paged =>
                /\ hyperlinks[k].page >= 1
                /\ hyperlinks[k].page = hyperlinks[k].fragment_page
          /\ ~hyperlinks[k].paged => hyperlinks[k].page = NonePage
    /\ \A k \in 1..Len(Accepted) :
          Accepted[k].file_info.type = "bates" => Accepted[k].file_info.page >= 1

\* C8 witness: page automation linked "Ex. 3" of "Ex. 3 at p. 12" to page 12
C8_Witness ==
    /\ RangeDone
    /\ word.page_automation_enabled
    /\ scan.range_text = "Ex. 3 at p. 12"
    /\ Len(hyperlinks) = 1
    /\ hyperlinks[1].paged /\ hyperlinks[1].page = 12

(***************************************************************************)
(* Properties of pattern synthesis (SpecSynth)                             *)
(***************************************************************************)
SynthLinker == IF call.linker = "word" THEN word ELSE excel

\* the pattern, run again on the exemplar, finds the exemplar's own identifier
\* (ignoring case) in group 1 and the digits of the exemplar page in group 2
Validated(pattern, citation, page) ==
    /\ pattern # NoPattern
    /\ LET m == Search(pattern, citation)
       IN /\ m.found
          /\ StrUpper(Group(m, citation, 1))
               = StrUpper(FirstExhibitId(exhibit_patterns, 1, citation))
          /\ Group(m, citation, 2) = IntToStr(page)

\* C10: after a call of build_page_pattern, if it returned True the pattern now
\* installed is validated against the exemplar and the group indexes are 1 and 2;
\* if it returned False the pattern and the two indexes are what they were before.
C10_InstallsOnlyValidated ==
    (call.op = "set_page_automation" /\ call.built) =>
        LET w == SynthLinker
        IN IF call.returned
           THEN /\ Validated(w.page_pattern_regex, w.exemplary_citation,
                             w.exemplary_page_number)
                /\ w.exhibit_group_index = 1
                /\ w.page_group_index = 2
           ELSE Installed(w) = call.before

\* C10 witness: a pattern is installed, then the exemplar "Ex. 3 at 4 and at 25"
\* with page 25 fails validation (group 2 is "4") and the pattern stays
C10_Witness ==
    /\ call.op = "set_page_automation"
    /\ call.built /\ ~call.returned
    /\ SynthLinker.exemplary_citation = "Ex. 3 at 4 and at 25"
    /\ SynthLinker.exemplary_page_number = 25
    /\ SynthLinker.page_pattern_regex # NoPattern
    /\ Installed(SynthLinker) = call.before

(***************************************************************************)
(* Properties of the Bates index under the handlers (SpecConfig)           *)
(***************************************************************************)
\* what build_bates_pdf_map would produce from the linker's folder and prefix now
FreshIndex(w) == build_bates_pdf_map(w.target_folder, w.bates_prefix, fs)

\* the Word linker is about to resolve the identifiers of its region
WordResolves == scan.pc = "start" /\ word.bates_mode

\* process_excel_column has just looked Bates numbers up
ExcelResolved == call.op = "process_excel_column" /\ call.lookups # {}

\* C9 (Word linker): when the Word linker resolves Bates identifiers, its index
\* is the one a fresh build from its target folder and prefix produces
C9_WordIndexFresh == WordResolves => word.bates_pdf_map = FreshIndex(word)

\* C9 (as claimed, both linkers): when a linker resolves a Bates identifier,
\* its index equals the index a fresh build from its current target folder and
\* its current prefix produces
C9_Original ==
    /\ WordResolves => word.bates_pdf_map = FreshIndex(word)
    /\ ExcelResolved => excel.bates_pdf_map = FreshIndex(excel)

\* C9 witness: the handlers ran one after another (folder F2 chosen, then
\* Process): the Excel linker has resolved a Bates number with the index of F2
C9_Witness ==
    /\ ExcelResolved
    /\ excel.target_folder = "F2"
    /\ excel.bates_prefix = "S_"
    /\ DOMAIN excel.bates_pdf_map = {40}
    /\ call.links_added = 1

(***************************************************************************)
(* Properties of the pattern's lifecycle (SpecSynth)                       *)
(***************************************************************************)
\* the pattern installed in w, if there is one, is the pattern a synthesis from
\* the exemplar pair now stored in w installs
SynthesizedFromCurrent(w) ==
    w.page_pattern_regex # NoPattern =>
        /\ w.exemplary_citation # ""
        /\ w.exemplary_page_number > 0
        /\ LET Same(built) == built.ok /\ built.pattern = w.page_pattern_regex
           IN Same(build_page_pattern(w.exemplary_citation, w.exemplary_page_number))

\* C11 as stated: after any sequence of set_page_automation calls the installed
\* pattern, if any, was synthesized from and validated against the most recent
\* exemplar pair; a failed synthesis leaves no earlier pattern installed.
C11_Original == SynthesizedFromCurrent(word) /\ SynthesizedFromCurrent(excel)

\* C11 witness: the second call's synthesis failed (exemplar "Ex. 3 at 4 and at
\* 25", page 25) and the pattern of the first exemplar is still installed
C11_Witness ==
    /\ call.op = "set_page_automation" /\ call.n = 2
    /\ call.built /\ ~call.returned
    /\ call.before[1] # NoPattern
    /\ SynthLinker.page_pattern_regex = call.before[1]
    /\ SynthLinker.exemplary_citation = "Ex. 3 at 4 and at 25"
    /\ SynthLinker.exemplary_page_number = 25
    /\ SynthLinker.page_automation_enabled

(***************************************************************************)
(* Properties of a failed synthesis in the scan that follows (SpecRange)   *)
(***************************************************************************)
\* the exemplar pair stored in w reached build_page_pattern and the synthesis
\* failed
SynthesisFailed(w) ==
    /\ w.exemplary_citation # ""
    /\ w.exemplary_page_number > 0
    /\ ~build_page_pattern(w.exemplary_citation, w.exemplary_page_number).ok

\* C12 as stated: when synthesis failed for the supplied exemplar, page
\* automation is not enabled in the scan that follows.
C12_Original ==
    (scan.pc \in {"start", "loop", "done"} /\ SynthesisFailed(word))
        => ~word.page_automation_enabled

\* C12 witness: the exemplar ("Ex. 5", 5) holds no page; the region "Ex. 3" was
\* scanned with page automation enabled and no pattern, and its citation was
\* given up on the exception
C12_Witness ==
    /\ RangeDone
    /\ SynthesisFailed(word)
    /\ word.page_automation_enabled
    /\ word.page_pattern_regex = NoPattern
    /\ scan.range_text = "Ex. 3"
    /\ Len(scan.attempts) = 1
    /\ scan.attempts[1].outcome = "exception"
    /\ scan.result = 0

(***************************************************************************)
(* Properties of the synthesis round trip (SpecRoundTrip)                  *)
(***************************************************************************)
\* what find_page_number_in_text answers when the pattern matches once, with
\* identifier id in group 1 and the digits of page n in group 2
Yields(id, n) ==
    [none_pair |-> FALSE, results |-> <<[exhibit_id |-> id, page_number |-> n]>>]

\* C13: the synthesis from an exemplar "Ex. <id>, <words>, at p. <n>" with page
\* n installs a pattern; run on the exemplar it yields (<id>, <n>), and run on
\* another citation of that shape, with identifier id' and page n', it yields
\* (id', n').
C13_RoundTrip ==
    call.op = "round_trip" =>
        /\ call.pc # "synthesize" =>
              /\ word.page_pattern_regex # NoPattern
              /\ word.page_pattern_regex = full_pattern(0)
        /\ call.pc \in {"other", "done"} =>
              call.on_exemplar = Yields(call.exemplar.id, call.exemplar.page)
        /\ call.pc = "done" =>
              call.on_other = Yields(call.other.id, call.other.page)

\* C13 witness: the exemplar "Ex. 5, Memo, at p. 25" gave ("5", 25) and the
\* citation "Ex. 7, Memo, at p. 99" gave ("7", 99)
C13_Witness ==
    /\ call.op = "round_trip" /\ call.pc = "done"
    /\ Shaped(call.exemplar) = "Ex. 5, Memo, at p. 25"
    /\ Shaped(call.other) = "Ex. 7, Memo, at p. 99"
    /\ call.on_exemplar = Yields("5", 25)
    /\ call.on_other = Yields("7", 99)

(***************************************************************************)
(* Properties of re-localization (SpecDrift)                               *)
(***************************************************************************)
\* the turn of the drifted region's one citation is over
DriftTurnDone == call.op = "drift" /\ call.done /\ Len(scan.attempts) = 1

\* C14: when the live text at the recorded span is no longer the citation and
\* the citation lies k characters from its recorded span: for |k| <= 5 the span
\* is corrected by k and the link, when the host makes it, is anchored on the
\* corrected span; for |k| > 5 the citation is given up and neither the text
\* nor the links of the region change.
C14_WindowOfFive ==
    DriftTurnDone =>
        LET r == scan.references[1]
            a == scan.attempts[1]
            k == call.k
        IN IF k \in (0 - SearchWindow)..SearchWindow
           THEN /\ r.start_pos = r.found_start + k
                /\ r.end_pos = r.found_end + k
                /\ a.outcome \in {"linked", "add failed"}
                /\ a.outcome = "linked" =>
                      /\ Len(hyperlinks) = 1
                      /\ hyperlinks[1].anchor_start = r.found_start + k
                      /\ hyperlinks[1].anchor_end = r.found_end + k
                      /\ hyperlinks[1].display = call.citation
                /\ a.outcome = "add failed" =>
                      hyperlinks = <<>> /\ range_text = call.live
           ELSE /\ a.outcome = "not found"
                /\ hyperlinks = <<>>
                /\ range_text = call.live
                /\ scan.links_added = 0

\* C14 witness: the citation moved 5 characters to the right and was linked on
\* the corrected span
C14_Witness ==
    /\ DriftTurnDone
    /\ call.k = 5
    /\ scan.attempts[1].outcome = "linked"
    /\ hyperlinks[1].anchor_start = scan.references[1].found_start + 5

\* C14 second witness: the citation moved 6 characters to the left and was
\* given up
C14_WitnessBeyond ==
    /\ DriftTurnDone
    /\ call.k = 0 - 6
    /\ scan.attempts[1].outcome = "not found"
    /\ scan.pc = "done" /\ scan.result = 0

(***************************************************************************)
(* Properties of abandoned citations (SpecRange)                           *)
(***************************************************************************)
Abandoned == {"not found", "find failed", "exception", "add failed"}

\* the attempts so far that ended in a link
LinkedAttempts == {k \in 1..Len(scan.attempts) : scan.attempts[k].outcome = "linked"}

\* C15: a citation given up in its turn (re-localization failed, locate failed,
\* the turn raised, or the host refused the link) only ends that turn: the loop
\* goes on to the next accepted citation, every accepted citation has had its
\* turn when the region returns, and the region returns the number of links
\* made.
C15_SkipIsLocal ==
    /\ InLoop => Len(scan.attempts) = scan.i - 1
    /\ \A k \in 1..Len(scan.attempts) :
          /\ scan.attempts[k].outcome \in Abandoned \cup {"linked"}
          /\ scan.attempts[k].reference = Accepted[k].reference
    /\ RangeDone =>
          /\ Len(scan.attempts) = Len(Accepted)
          /\ scan.result = Cardinality(LinkedAttempts)

\* C15 witness: the host refused the link of the first citation attempted, the
\* second was linked, and the region returned 1
C15_Witness ==
    /\ RangeDone
    /\ Len(scan.attempts) = 2
    /\ scan.attempts[1].outcome = "add failed"
    /\ scan.attempts[2].outcome = "linked"
    /\ scan.result = 1

(***************************************************************************)
(* Properties of the receipts of a region (SpecRange)                      *)
(***************************************************************************)
\* C19 as stated: the linker's list of created hyperlinks holds one receipt for
\* every citation counted as annotated.
C19_Original ==
    /\ InLoop => Len(word.created_hyperlinks) = scan.links_added
    /\ RangeDone => Len(word.created_hyperlinks) = scan.result

\* C19 witness: a region returned with one link made and no receipt recorded
C19_Witness ==
    /\ RangeDone
    /\ scan.result = 1
    /\ Len(hyperlinks) = 1
    /\ word.created_hyperlinks = <<>>

(***************************************************************************)
(* Properties of the filter on unresolved identifiers (SpecRange)          *)
(***************************************************************************)
\* resolution returns a target for the citation text
Resolves(reference) == find_matching_files(word, reference, fs) # <<>>

\* the texts the patterns of the linker's mode match in the region's snapshot
MatchTexts(text) ==
    UNION {{Group0(FindIter(RangePatterns(word)[p], text)[k], text) :
               k \in 1..Len(FindIter(RangePatterns(word)[p], text))} :
           p \in 1..Len(RangePatterns(word))}

\* C20: only citations for which resolution returned a target are accepted,
\* attempted and linked, each with the first target resolution returned; a
\* region in which no matched citation resolves has no accepted citation,
\* returns zero, and keeps its text and its links as they were.
C20_UnresolvedFiltered ==
    /\ \A k \in 1..Len(Accepted) :
          /\ Resolves(Accepted[k].reference)
          /\ Accepted[k].file_info
               = find_matching_files(word, Accepted[k].reference, fs)[1]
    /\ \A k \in 1..Len(scan.attempts) : Resolves(scan.attempts[k].reference)
    /\ \A k \in 1..Len(hyperlinks) : Resolves(hyperlinks[k].display)
    /\ (RangeDone /\ \A t \in MatchTexts(scan.range_text) : ~Resolves(t)) =>
          /\ Accepted = <<>>
          /\ scan.attempts = <<>>
          /\ scan.result = 0
          /\ hyperlinks = <<>>
          /\ range_text = scan.range_text

\* C20 witness: in "Ex. 3 and Ex. 3A" with only "Ex. 3A.pdf" in the folder the
\* citation "Ex. 3" has no target: one citation accepted, one turn, one link
C20_Witness ==
    /\ RangeDone
    /\ ~word.bates_mode
    /\ scan.range_text = "Ex. 3 and Ex. 3A"
    /\ fs["F1"] = <<"Ex. 3A.pdf">>
    /\ ~Resolves("Ex. 3")
    /\ Len(Accepted) = 1 /\ Accepted[1].reference = "Ex. 3A"
    /\ Len(scan.attempts) = 1
    /\ Len(hyperlinks) = 1 /\ hyperlinks[1].display = "Ex. 3A"

\* C20 second witness: nothing in "Ex. 3" resolves against an empty folder; the
\* region returned zero and its text is unchanged
C20_WitnessNoneResolves ==
    /\ RangeDone
    /\ ~word.bates_mode
    /\ scan.range_text = "Ex. 3"
    /\ fs["F1"] = <<>>
    /\ Accepted = <<>>
    /\ scan.result = 0
    /\ range_text = "Ex. 3"

(***************************************************************************)
(* Properties of the scan (SpecScan, SpecScanFair)                         *)
(***************************************************************************)
ScanOn == call.op = "process_document"
Returned == ScanOn /\ call.pc = "returned"

\* the scan left before its loops: no paragraph count or no folder listing
LeftAtStart == call.fault \in {"paragraphs", "folder"}

RECURSIVE SumSeq(_)
SumSeq(q) == IF q = <<>> THEN 0 ELSE Head(q) + SumSeq(Tail(q))

\* the regions the three loops run over, in the order of the source
AllRegions(frame) ==
    [i \in 1..Len(SectionRegions(frame, "paragraphs")) |-> <<"paragraphs", i>>]
        \o [i \in 1..Len(SectionRegions(frame, "footnotes")) |-> <<"footnotes", i>>]
        \o [i \in 1..Len(SectionRegions(frame, "endnotes")) |-> <<"endnotes", i>>]

\* the region a visit read
RegionAt(frame, v) == frame.doc[v[1]][v[2]]

\* C16: a region whose text cannot be read, or whose processing raises, adds
\* nothing; the total is the sum of what the regions finished so far added;
\* and a scan that reached its loops returns only after every paragraph,
\* footnote and endnote has been visited, with that sum.
C16_RegionFailureIsLocal ==
    ScanOn =>
        /\ Len(call.contributions) <= Len(call.visited)
        /\ \A k \in 1..Len(call.contributions) :
              RegionAt(call, call.visited[k]).fault # "none" => call.contributions[k] = 0
        /\ call.total_links_added = SumSeq(call.contributions)
        /\ (Returned /\ ~LeftAtStart) =>
              /\ call.visited = AllRegions(call)
              /\ Len(call.contributions) = Len(call.visited)
              /\ call.result = SumSeq(call.contributions)

\* C16 witness: the second paragraph raised between two regions that each got
\* a link; the scan returned 2
C16_Witness ==
    /\ Returned
    /\ Len(call.visited) = 3
    /\ RegionAt(call, call.visited[2]).fault = "raises"
    /\ call.contributions = <<1, 0, 1>>
    /\ call.result = 2

\* C17: process_document, whatever fails in its citations and its regions,
\* comes to its return with a count that is a natural number, and stays there.
C17_ScanReturns == <>[](Returned /\ call.result \in Nat)

\* C17 witness: a scan returned although the host refused a link in one
\* region, another region could not be read and the footnotes could not be
\* reached
C17_Witness ==
    /\ Returned
    /\ call.fault = "footnotes"
    /\ Len(call.doc.paragraphs) = 2
    /\ call.doc.paragraphs[1].fault = "none" /\ call.doc.paragraphs[1].text = "Ex. 3"
    /\ call.doc.paragraphs[2].fault = "unreadable"
    /\ call.contributions = <<0, 0>>
    /\ call.result = 0

Rank(section) == CHOOSE k \in 1..Len(Sections) : Sections[k] = section

\* the visits so far are the first regions of the fixed order, none twice, and
\* the region being processed is the last one read
VisitedInOrder ==
    ScanOn =>
        /\ Len(call.visited) <= Len(AllRegions(call))
        /\ \A k \in 1..Len(call.visited) : call.visited[k] = AllRegions(call)[k]
        /\ \A a, b \in 1..Len(call.visited) :
              a < b =>
                 \/ Rank(call.visited[a][1]) < Rank(call.visited[b][1])
                 \/ /\ call.visited[a][1] = call.visited[b][1]
                    /\ call.visited[a][2] < call.visited[b][2]
        /\ call.pc = "in_region" =>
              call.visited[Len(call.visited)] = <<call.section, call.i>>

\* a region is read only when every region read before it has been finished
ReadsWhenFinished ==
    (ScanOn /\ Len(call'.visited) > Len(call.visited)) =>
        /\ scan.pc = "idle"
        /\ Len(call.contributions) = Len(call.visited)

\* C18: the scan reads the paragraphs in index order, then the footnotes, then
\* the endnotes, each region once, and reads a region only after the one
\* before it has been processed to its end.
C18_FixedOrder == []VisitedInOrder /\ [][ReadsWhenFinished]_vars

\* C18 witness: two paragraphs, a footnote and an endnote were visited in that
\* order and the scan returned
C18_Witness ==
    /\ Returned
    /\ call.visited = << <<"paragraphs", 1>>, <<"paragraphs", 2>>,
                         <<"footnotes", 1>>, <<"endnotes", 1>> >>

(***************************************************************************)
(* Properties of extraction over the surface forms (SpecExtract)           *)
(***************************************************************************)
\* the matches of the patterns of the linker's mode in a text
PatternMatches(text) ==
    UNION {{FindIter(RangePatterns(word)[p], text)[k] :
               k \in 1..Len(FindIter(RangePatterns(word)[p], text))} :
           p \in 1..Len(RangePatterns(word))}

\* C21 as stated: once extraction has run, every match of a surface pattern
\* whose text resolves to a target is an accepted citation or overlaps one.
C21_Original ==
    scan.pc # "start" =>
        \A m \in PatternMatches(scan.range_text) :
            Resolves(Group0(m, scan.range_text)) =>
                \E k \in 1..Len(Accepted) :
                    Intersect(m.start, m.end,
                              Accepted[k].found_start, Accepted[k].found_end)

\* C21 witness: the region "Ex_3" was scanned with Ex. 3.pdf in the folder; the
\* pattern Ex_(\d+[A-Z]?) matches it and it resolves, and nothing was accepted
C21_Witness ==
    /\ RangeDone
    /\ scan.range_text = "Ex_3"
    /\ Resolves("Ex_3")
    /\ \E m \in PatternMatches("Ex_3") : m.start = 0 /\ m.end = 4
    /\ Accepted = <<>>
    /\ scan.result = 0
    /\ hyperlinks = <<>>

(***************************************************************************)
(* Properties of numeric cells (SpecCells)                                 *)
(***************************************************************************)
CellsDone == call.op = "process_excel_column" /\ call.row = 3

\* C22 as stated: the float cell was matched as its integer string, and the
\* targets found for it are the targets found for the text cell.
C22_Original ==
    CellsDone => call.files[1] = call.files[2]

\* C22 witness: the float 1e16 and the text "10000000000000000" were both
\* processed with Ex. 10000000000000000.pdf in the folder: the text cell is
\* linked to it, the float cell has no target
C22_Witness ==
    /\ CellsDone
    /\ call.digits = "10000000000000000"
    /\ fs["F1"] = <<"Ex. 10000000000000000.pdf">>
    /\ call.files[1] = <<>>
    /\ call.files[2] = <<FileInfo(PathJoin("F1", "Ex. 10000000000000000.pdf"))>>

\* the claim holds for the floats that str() prints without an exponent, 10.0
\* among them: same targets as the text cell, found for the bare number
C22_PositionalFloats ==
    (CellsDone /\ Len(call.digits) <= 16) =>
        /\ call.files[1] = call.files[2]
        /\ call.files[2] = Excel_find_matching_files(CellsLinker, call.digits, fs)
        /\ call.linked[1] => excel.cells[1].value = call.digits

\* the float 10.0 and the text "10" are both linked to Ex. 10.pdf
C22_TenIsLinked ==
    /\ CellsDone
    /\ call.digits = "10"
    /\ call.files[1] = <<FileInfo(PathJoin("F1", "Ex. 10.pdf"))>>
    /\ call.linked = <<TRUE, TRUE>>
    /\ excel.cells[1].value = "10" /\ excel.cells[2].value = "10"

(***************************************************************************)
(* Properties of the renamer's dry run (SpecRename)                        *)
(***************************************************************************)
RenameDone == call.op = "rename_files_in_folder" /\ call.pc = "done"

\* C23 as stated: the dry run and the real run on the same folder return the
\* same successful list and the same failed list.
C23_Original ==
    RenameDone =>
        /\ call.dry.successful_renames = call.real.successful_renames
        /\ call.dry.failed_renames = call.real.failed_renames

\* C23 witness: "Ex. 1.pdf" and "Ex 1.pdf" both normalize to "Ex_1.pdf"; the
\* dry run lists both as renames, the real run renames the first and fails the
\* second on the name the first now has
C23_Witness ==
    /\ RenameDone
    /\ call.before = <<"Ex. 1.pdf", "Ex 1.pdf">>
    /\ call.dry.successful_renames
         = << <<"Ex. 1.pdf", "Ex_1.pdf">>, <<"Ex 1.pdf", "Ex_1.pdf">> >>
    /\ call.dry.failed_renames = <<>>
    /\ call.real.successful_renames = << <<"Ex. 1.pdf", "Ex_1.pdf">> >>
    /\ call.real.failed_renames
         = << <<"Ex 1.pdf", "Ex_1.pdf", "Target file already exists: Ex_1.pdf">> >>
    /\ fs["F1"] = <<"Ex_1.pdf", "Ex 1.pdf">>

\* the two runs do agree on a folder in which no two files that are renamed
\* normalize to the same name, and the dry run leaves the folder as it was
C23_WithoutCollision ==
    /\ (call.op = "rename_files_in_folder" /\ call.pc = "real") => fs["F1"] = call.before
    /\ (RenameDone /\ \A i, j \in 1..Len(call.before) :
             (i # j /\ normalize_filename(call.before[i]) # call.before[i])
                 => normalize_filename(call.before[i]) # normalize_filename(call.before[j]))
          => /\ call.dry.successful_renames = call.real.successful_renames
             /\ call.dry.failed_renames = call.real.failed_renames

(***************************************************************************)
(* Properties of the boundary of the synthesized pattern (SpecBoundary)    *)
(***************************************************************************)
\* "Ex." or "Exhibit", optional spaces, and the first character of an identifier
ExhibitStart == RCat(<<RAlt(<<RLit("Ex."), RLit("Exhibit")>>), RSpaces0, RSet(WordCh)>>)

\* the text of a match between its captured identifier and its captured page
Between(m, text) == Slice(text, m.caps[1][2], m.caps[2][1])

\* the context the loop searches for the page of an accepted citation
ContextOf(ref) ==
    PySlice(scan.range_text, ref.found_start,
            Min(Len(scan.range_text), ref.found_end + ContextChars))

\* C24 as stated: in every match of the installed pattern, in the region's text
\* and in the context of each accepted citation, no exhibit reference starts
\* between the identifier and the page; and no link carries a page that the
\* pattern took from behind another exhibit reference.
C24_Original ==
    (scan.pc # "start" /\ word.page_pattern_regex # NoPattern) =>
        \A text \in {scan.range_text} \cup {ContextOf(Accepted[k]) : k \in 1..Len(Accepted)} :
            \A k \in 1..Len(FindIter(word.page_pattern_regex, text)) :
                ~Search(ExhibitStart,
                        Between(FindIter(word.page_pattern_regex, text)[k], text)).found

\* C24 witness: in "Ex. 5 and Exhibit 7 at p. 9" the citation "Ex. 5" was
\* linked to page 9 of Ex. 5.pdf
C24_Witness ==
    /\ RangeDone
    /\ scan.range_text = "Ex. 5 and Exhibit 7 at p. 9"
    /\ \E k \in 1..Len(hyperlinks) :
          /\ hyperlinks[k].display = "Ex. 5"
          /\ hyperlinks[k].path = PathJoin("F1", "Ex. 5.pdf")
          /\ hyperlinks[k].fragment_page = 9

(***************************************************************************)
(* Properties of the counts (SpecScan)                                     *)
(***************************************************************************)
\* the links the region being processed has added so far
RegionLinks == IF call.pc = "in_region" THEN scan.links_added ELSE 0

CountsAreCommits ==
    ScanOn =>
        /\ scan.pc \in {"loop", "done"} => scan.links_added = Cardinality(LinkedAttempts)
        /\ scan.pc = "done" => scan.result = scan.links_added
        /\ call.total_links_added = SumSeq(call.contributions)
        /\ Len(hyperlinks) = call.total_links_added + RegionLinks
        /\ (Returned /\ ~LeftAtStart) =>
              /\ call.result = SumSeq(call.contributions)
              /\ call.result = Len(hyperlinks)

\* a turn of the loop adds one to the counter exactly when it added a link, and
\* a turn that gave its citation up adds nothing
CountStep ==
    (ScanOn /\ scan.pc = "loop" /\ scan'.pc = "loop" /\ scan'.i = scan.i + 1) =>
        /\ scan'.links_added - scan.links_added = Len(hyperlinks') - Len(hyperlinks)
        /\ scan'.links_added - scan.links_added \in {0, 1}
        /\ scan'.attempts[Len(scan'.attempts)].outcome \in Abandoned
              => scan'.links_added = scan.links_added

SessionEnded == call.op = "session" /\ call.pc = "ended"

\* C26 as stated: when the session has ended, every setting initialize_word
\* altered has the value it had before, also when initialize_word failed.
C26_Original ==
    SessionEnded => \A s \in call.altered : call.host[s] = call.before[s]

\* C26 witness: every setting was on; initialize_word saved all eight, turned
\* them off and failed at its test of Documents.Count; the session has ended
\* and they are still off
C26_Witness ==
    /\ SessionEnded
    /\ call.fault.at = "count"
    /\ \A s \in Range(SavedSettings) : call.before[s]
    /\ DOMAIN call.original_word_settings = Range(SavedSettings)
    /\ call.altered = Range(SavedSettings)
    /\ \A s \in Range(SavedSettings) : ~call.host[s]

\* where no host call raises, every altered setting is restored
C26_RestoredWithoutFault ==
    (SessionEnded /\ call.fault.at = "none") =>
        /\ call.altered = Range(SavedSettings)
        /\ call.host = call.before

(***************************************************************************)
(* Properties of the anchors of a region (SpecRange)                       *)
(***************************************************************************)
\* the spans of the region that carry a link
AnnotatedSpans ==
    {<<hyperlinks[k].anchor_start, hyperlinks[k].anchor_end>> : k \in 1..Len(hyperlinks)}

\* C27 as stated: the region's count is at most the number of distinct spans
\* that were annotated: no span got two links.
C27_Original ==
    /\ InLoop => scan.links_added <= Cardinality(AnnotatedSpans)
    /\ RangeDone => scan.result <= Cardinality(AnnotatedSpans)

\* C27 witness: in "Ex. 3 and Ex. 3" the offset locate failed for both
\* citations; Find.Execute anchored both on the first occurrence, which has two
\* links, and the region returned 2
C27_Witness ==
    /\ RangeDone
    /\ scan.range_text = "Ex. 3 and Ex. 3"
    /\ range_text = "Ex. 3 and Ex. 3"
    /\ Len(hyperlinks) = 2
    /\ AnnotatedSpans = {<<0, 5>>}
    /\ scan.result = 2

(***************************************************************************)
(* Properties of page automation without a pattern (SpecRange)             *)
(***************************************************************************)
\* page automation is enabled and no pattern is installed: the synthesis
\* failed, or the exemplar page is 0 and build_page_pattern was not called
EnabledWithoutPattern(w) ==
    /\ w.page_automation_enabled
    /\ w.page_pattern_regex = NoPattern

\* C28 as stated: with page automation enabled and no pattern installed, no
\* citation that was located in the region is given up before its link is
\* added; with page automation disabled its turn goes on to Hyperlinks.Add
\* with the file-level target.
C28_Original ==
    EnabledWithoutPattern(word) =>
        \A k \in 1..Len(scan.attempts) : scan.attempts[k].outcome # "exception"

\* C28 witness: the exemplar page is 0, the region "Ex. 3 and Ex. 3" was
\* scanned with page automation enabled and no pattern, both citations were
\* located and given up on the exception, and the region has no hyperlink
C28_Witness ==
    /\ RangeDone
    /\ EnabledWithoutPattern(word)
    /\ word.exemplary_page_number = 0
    /\ scan.range_text = "Ex. 3 and Ex. 3"
    /\ Len(scan.attempts) = 2
    /\ \A k \in 1..2 : scan.attempts[k].outcome = "exception"
    /\ hyperlinks = <<>>
    /\ scan.result = 0

(***************************************************************************)
(* Properties of the page context (SpecContext)                            *)
(***************************************************************************)
\* lines 939-942: the context searched for the page of a citation whose span
\* the turn has verified or corrected
context_text(ref) ==
    PySlice(scan.range_text, ref.start_pos,
            Min(Len(scan.range_text), ref.end_pos + ContextChars))

BeginsWith(text, prefix) ==
    /\ Len(text) >= Len(prefix)
    /\ SubSeq(text, 1, Len(prefix)) = prefix

\* the turns so far that came to the page lookup
LookedUp == {k \in 1..Len(scan.attempts) :
               scan.attempts[k].outcome \notin {"not found", "find failed"}}

\* C29 as stated: the context searched for the page of a citation begins with
\* the citation's expected text, also when its span was corrected by
\* re-localization or its turn follows commits in the region.
C29_Original ==
    \A k \in LookedUp :
        BeginsWith(context_text(scan.references[k]), scan.references[k].reference)

\* C29 witness: "Ex. 3 at p. 12" moved 2 characters to the right after the
\* region's text was read; the span was corrected to 9..14, the context cut
\* there from the text read first is ". 3 at p. 12", and the link was made
\* without the page
C29_Witness ==
    /\ RangeDone
    /\ call.op = "drift" /\ call.k = 2
    /\ call.citation = "Ex. 3" /\ call.tail = " at p. 12"
    /\ scan.attempts[1].outcome = "linked"
    /\ scan.references[1].start_pos = 9
    /\ context_text(scan.references[1]) = ". 3 at p. 12"
    /\ Len(hyperlinks) = 1
    /\ ~hyperlinks[1].paged

\* without a correction of the span the context begins with the citation
C29_UncorrectedSpans ==
    \A k \in LookedUp :
        scan.references[k].start_pos = scan.references[k].found_start =>
            BeginsWith(context_text(scan.references[k]), scan.references[k].reference)

\* the citation did not move, and the link carries the page found in the context
C29_PageFound ==
    /\ RangeDone
    /\ call.op = "drift" /\ ~call.done
    /\ call.tail = " at p. 12"
    /\ Len(hyperlinks) = 1
    /\ hyperlinks[1].paged /\ hyperlinks[1].page = 12

(***************************************************************************)
(* Properties of cells that are not counted (SpecRelink)                   *)
(***************************************************************************)
\* C30 as stated: a cell that the run does not count as linked holds the value
\* and the hyperlink it held before the run.
C30_Original ==
    (call.op = "process_excel_column" /\ call.run > 0) =>
        \A k \in DOMAIN excel.cells :
            ~call.linked[k] => excel.cells[k] = call.before[k]

\* C30 witness: the first cell "Ex. 3" carried the Hyperlinks.Add link of the
\* first run; in the second run the formula, Hyperlinks.Add and the value
\* assignment all raised: the cell is not counted and its link is gone
C30_Witness ==
    /\ call.op = "process_excel_column" /\ call.run = 2
    /\ call.before[1].value = "Ex. 3"
    /\ call.before[1].link.method = "add"
    /\ call.outcomes[1] = "failed"
    /\ ~call.linked[1]
    /\ call.links_added = 0
    /\ excel.cells[1].link = NoLink

\* a cell for which no file matches, or whose old hyperlinks cannot be removed,
\* is left as it was
C30_UntouchedRows ==
    (call.op = "process_excel_column" /\ call.run > 0) =>
        \A k \in DOMAIN excel.cells :
            (call.outcomes[k] = "error"
             \/ Excel_find_matching_files(excel, DropFloatSuffix(Strip(call.before[k].value)),
                                          fs) = <<>>)
                => /\ ~call.linked[k]
                   /\ excel.cells[k] = call.before[k]

\* the cell " Ex. 3 " was not counted and now holds the stripped text
C30_ValueRewritten ==
    /\ call.op = "process_excel_column" /\ call.run = 1
    /\ call.before[1].value = " Ex. 3 "
    /\ call.outcomes[1] = "value"
    /\ ~call.linked[1]
    /\ excel.cells[1].value = "Ex. 3"

====
